---- MODULE Spec2Model ----
(***************************************************************************)
(* Directory-tree state of the two explorers of the repository:            *)
(*   FE  = class FileExplorer               (src/file-explorer/renderer.js)*)
(*   CM  = class ConceptualMapFileExplorer  (src/conceptualMap/fileExplorer.js) *)
(* together with the main-process filesystem handlers they call            *)
(* (src/file-explorer/main.js, the same handlers in src/unnamed/part_001). *)
(* The tabs of the editor (class MonacoEditor, src/unnamed/part_000), the  *)
(* terminals of src/unnamed/part_001 and the Perl syntax check of the two  *)
(* main processes (src/code-area/main.js, src/unnamed/part_001) follow.    *)
(*                                                                         *)
(* Encoding of strings.  A file name is a sequence of character codes:     *)
(*   0 = '.', 2k-1 = the k-th letter in upper case, 2k = the same letter   *)
(*   in lower case (1 = 'A', 2 = 'a', 3 = 'B', 4 = 'b', ...).              *)
(* A path is the sequence of the names of its segments, so path.join,      *)
(* path.dirname and path.basename are Append, front and last.              *)
(***************************************************************************)
EXTENDS Integers, Sequences, FiniteSets, TLC

(* ---------------------------- bounds ----------------------------------- *)

\* The letters of codes 1..NumChars make the names the sort is tried on.
NumChars == 3

\* Longest name (in characters) the sort is tried on.
MaxNameLen == 1

\* Largest number of sibling entries the sort is tried on.
MaxSiblings == 2

\* Longest path (in segments) the filesystem accepts; a longer destination
\* fails like ENAMETOOLONG.
MaxDepth == 3

\* Largest number of IPC calls and timers in flight when the user starts
\* another operation.
MaxInflight == 1

\* Largest number of directory listings one folder's expands await at once
\* when clicks follow each other faster than the listings return.
MaxExpands == 2

\* The files the editor can open are those of paths 1..NumFiles.
NumFiles == 2

\* A file's text is one of 0..MaxContent, 0 being the empty text.
MaxContent == 2

\* Largest number of tab elements in the tab bar when a file is opened or
\* saved under another name.
MaxTabElements == 2

\* Largest number of bytes written to one terminal.
MaxWrites == 1

\* Largest number of check-perl-syntax calls made.
MaxChecks == 2

(* ------------------------- strings and paths --------------------------- *)

Chars == 1..NumChars

RECURSIVE SeqsUpTo(_, _)
SeqsUpTo(S, n) ==
    IF n = 0 THEN {<<>>}
    ELSE LET shorter == SeqsUpTo(S, n - 1)
         IN  shorter \cup {Append(s, x) : s \in {t \in shorter : Len(t) = n - 1}, x \in S}

\* the name '..'
DotDot == <<0, 0>>

\* the names the sort is tried on: every word over the letters, and '..'
SortNames == (SeqsUpTo(Chars, MaxNameLen) \ {<<>>}) \cup {DotDot}

PathJoin(dir, name) == Append(dir, name)

PathDirname(p) == IF Len(p) = 0 THEN p ELSE SubSeq(p, 1, Len(p) - 1)

PathBasename(p) == IF Len(p) = 0 THEN <<>> ELSE p[Len(p)]

\* p is q or lies beneath q
IsPrefix(q, p) == Len(q) <= Len(p) /\ SubSeq(p, 1, Len(q)) = q

Min(a, b) == IF a <= b THEN a ELSE b

Max(a, b) == IF a >= b THEN a ELSE b

(* ------------------- String.prototype.localeCompare -------------------- *)

\* primary collation weight: the letter, whatever its case; '.' sorts first
LetterOf(c) == (c + 1) \div 2

\* tertiary collation weight: lower case before upper case
CaseOf(c) == IF c % 2 = 1 THEN 1 ELSE 0

\* the UTF-16 code unit of a character: '.' = 46, 'A' = 65, 'a' = 97
CodeUnitOf(c) ==
    IF c = 0 THEN 46 ELSE IF CaseOf(c) = 1 THEN 64 + LetterOf(c) ELSE 96 + LetterOf(c)

\* the key of a character at a comparison level:
\* 1 = letters only, 3 = case only, 0 = the code unit itself
KeyOf(level, c) ==
    IF level = 1 THEN LetterOf(c) ELSE IF level = 3 THEN CaseOf(c) ELSE CodeUnitOf(c)

RECURSIVE CompareKeys(_, _, _, _)
CompareKeys(a, b, i, level) ==
    IF i > Len(a) /\ i > Len(b) THEN 0
    ELSE IF i > Len(a) THEN -1
    ELSE IF i > Len(b) THEN 1
    ELSE IF KeyOf(level, a[i]) < KeyOf(level, b[i]) THEN -1
    ELSE IF KeyOf(level, a[i]) > KeyOf(level, b[i]) THEN 1
    ELSE CompareKeys(a, b, i + 1, level)

\* a.localeCompare(b): letters first, case only breaks ties
LocaleCompare(a, b) ==
    LET primary == CompareKeys(a, b, 1, 1)
    IN  IF primary # 0 THEN primary ELSE CompareKeys(a, b, 1, 3)

\* comparison of two strings by code units (the < of strings)
CodeUnitCompare(a, b) == CompareKeys(a, b, 1, 0)

\* String.prototype.toLowerCase
ToLowerCase(a) == [i \in 1..Len(a) |-> IF CaseOf(a[i]) = 1 THEN a[i] + 1 ELSE a[i]]

(* --------------------------- sorting of items -------------------------- *)

\* the comparator of the sort without the folders-first clauses
CompareNamesOnly(a, b) == LocaleCompare(a.name, b.name)

\* (a, b) => { folders first, then a.name.localeCompare(b.name) }
CompareItems(a, b) ==
    IF a.isDirectory /\ ~b.isDirectory THEN -1
    ELSE IF ~a.isDirectory /\ b.isDirectory THEN 1
    ELSE LocaleCompare(a.name, b.name)

\* insert x into the sorted sequence s behind every element not greater
RECURSIVE InsertSorted(_, _, _)
InsertSorted(s, x, i) ==
    IF i = 0 \/ CompareItems(s[i], x) <= 0
    THEN SubSeq(s, 1, i) \o <<x>> \o SubSeq(s, i + 1, Len(s))
    ELSE InsertSorted(s, x, i - 1)

\* items.sort(comparator): a stable insertion sort
RECURSIVE SortItems(_)
SortItems(items) ==
    IF Len(items) = 0 THEN <<>>
    ELSE LET front == SortItems(SubSeq(items, 1, Len(items) - 1))
         IN  InsertSorted(front, items[Len(items)], Len(front))

\* FE renderFileTree: the order in which the tree items are appended
RenderOrderFE(items) == SortItems(items)

\* CM renderFileTree: '..' is filtered out, then the same sort
RenderOrderCM(items) == SortItems(SelectSeq(items, LAMBDA it : it.name # DotDot))

RenderOrder(which, items) ==
    IF which = "CM" THEN RenderOrderCM(items) ELSE RenderOrderFE(items)

(* ---------------- the filesystem behind the IPC handlers --------------- *)
(* A disk is the set of its entries [path, isDirectory]; the root <<>> is  *)
(* always a directory.                                                     *)

Exists(d, p) == p = <<>> \/ \E e \in d : e.path = p

IsDir(d, p) == p = <<>> \/ \E e \in d : e.path = p /\ e.isDirectory

ChildEntries(d, p) == {e \in d : Len(e.path) = Len(p) + 1 /\ IsPrefix(p, e.path)}

\* the entries of a set in the order readdir hands them out (by code unit)
RECURSIVE InReaddirOrder(_)
InReaddirOrder(S) ==
    IF S = {} THEN <<>>
    ELSE LET first == CHOOSE e \in S : \A f \in S :
                          CodeUnitCompare(PathBasename(e.path), PathBasename(f.path)) <= 0
         IN  <<first>> \o InReaddirOrder(S \ {first})

\* ipcMain.handle('read-directory'): the entries, or [] when readdir throws
ReadDirectory(d, dirPath) ==
    IF IsDir(d, dirPath)
    THEN LET es == InReaddirOrder(ChildEntries(d, dirPath))
         IN  [i \in 1..Len(es) |->
                 [name |-> PathBasename(es[i].path),
                  isDirectory |-> es[i].isDirectory,
                  path |-> PathJoin(dirPath, PathBasename(es[i].path))]]
    ELSE <<>>

Failed(d) == [ok |-> FALSE, disk |-> d]

Done(d) == [ok |-> TRUE, disk |-> d]

\* a path the filesystem can hold an entry at: its parent is a directory
CanHold(d, p) == Len(p) >= 1 /\ Len(p) <= MaxDepth /\ IsDir(d, PathDirname(p))

\* ipcMain.handle('delete-item'): stat, then rmdir recursive or unlink
DeleteItem(d, itemPath) ==
    IF itemPath = <<>> \/ ~Exists(d, itemPath) THEN Failed(d)
    ELSE Done({e \in d : ~IsPrefix(itemPath, e.path)})

\* the entries beneath (and at) src, re-rooted at dst
Relocated(d, src, dst) ==
    {[path |-> dst \o SubSeq(e.path, Len(src) + 1, Len(e.path)),
      isDirectory |-> e.isDirectory] : e \in {f \in d : IsPrefix(src, f.path)}}

\* ipcMain.handle('move-item') and 'rename-item': fs.promises.rename
MoveItem(d, sourcePath, destinationPath) ==
    IF sourcePath = <<>> \/ ~Exists(d, sourcePath) THEN Failed(d)
    ELSE IF sourcePath = destinationPath THEN Done(d)
    ELSE IF ~CanHold(d, destinationPath) THEN Failed(d)
    ELSE IF IsDir(d, sourcePath) /\ IsPrefix(sourcePath, destinationPath) THEN Failed(d)
    ELSE IF Exists(d, destinationPath)
            /\ (IsDir(d, sourcePath) # IsDir(d, destinationPath)
                \/ ChildEntries(d, destinationPath) # {}) THEN Failed(d)
    ELSE LET moved == Relocated(d, sourcePath, destinationPath)
         IN  IF \E e \in moved : Len(e.path) > MaxDepth THEN Failed(d)
             ELSE Done({e \in d : ~IsPrefix(sourcePath, e.path)
                                  /\ e.path # destinationPath} \cup moved)

\* fs.promises.copyFile
CopyFile(d, sourcePath, destinationPath) ==
    IF sourcePath = destinationPath THEN Done(d)
    ELSE IF ~CanHold(d, destinationPath) \/ IsDir(d, destinationPath) THEN Failed(d)
    ELSE Done(d \cup {[path |-> destinationPath, isDirectory |-> FALSE]})

\* fs.promises.mkdir(p, {recursive: true})
RECURSIVE MkdirRecursive(_, _)
MkdirRecursive(d, p) ==
    IF IsDir(d, p) THEN Done(d)
    ELSE IF Exists(d, p) \/ Len(p) > MaxDepth THEN Failed(d)
    ELSE LET up == MkdirRecursive(d, PathDirname(p))
         IN  IF up.ok THEN Done(up.disk \cup {[path |-> p, isDirectory |-> TRUE]})
             ELSE up

\* copyDirectoryRecursive: mkdir, readdir, then every entry in turn; the
\* first failure throws and leaves what was copied so far
RECURSIVE CopyDirectoryRecursive(_, _, _)
RECURSIVE CopyEntries(_, _, _, _, _)
CopyEntries(d, names, i, sourcePath, destinationPath) ==
    IF i > Len(names) THEN Done(d)
    ELSE LET sourceItemPath == PathJoin(sourcePath, names[i])
             destItemPath == PathJoin(destinationPath, names[i])
             one == IF ~Exists(d, sourceItemPath) THEN Failed(d)
                    ELSE IF IsDir(d, sourceItemPath)
                         THEN CopyDirectoryRecursive(d, sourceItemPath, destItemPath)
                         ELSE CopyFile(d, sourceItemPath, destItemPath)
         IN  IF one.ok THEN CopyEntries(one.disk, names, i + 1, sourcePath, destinationPath)
             ELSE one

CopyDirectoryRecursive(d, sourcePath, destinationPath) ==
    LET made == MkdirRecursive(d, destinationPath)
    IN  IF ~made.ok THEN made
        ELSE LET es == InReaddirOrder(ChildEntries(made.disk, sourcePath))
                 names == [i \in 1..Len(es) |-> PathBasename(es[i].path)]
             IN  CopyEntries(made.disk, names, 1, sourcePath, destinationPath)

\* ipcMain.handle('copy-item'): stat, then the recursive or the file copy
CopyItem(d, sourcePath, destinationPath) ==
    IF ~Exists(d, sourcePath) THEN Failed(d)
    ELSE IF IsDir(d, sourcePath)
         THEN LET r == CopyDirectoryRecursive(d, sourcePath, destinationPath)
              IN  [ok |-> r.ok, disk |-> r.disk]
         ELSE CopyFile(d, sourcePath, destinationPath)


(* ------------------------------- state --------------------------------- *)

VARIABLES
    impl,             \* which explorer ("FE", "CM") or main process this run is of
    disk,             \* the filesystem
    currentPath,      \* this.currentPath
    fileTree,         \* the tree items of #file-tree, in document order
    kids,             \* path of a folder item |-> the items in its children box
    expanded,         \* paths of the folder items whose children box is 'expanded'
    selectedItems,    \* this.selectedItems, a Set of paths (see FirstOf)
    selectedItem,     \* this.selectedItem
    lastSelectedItem, \* this.lastSelectedItem
    clipboard,        \* this.clipboard
    draggedItem,      \* this.draggedItem
    inflight,         \* IPC calls awaited by a handler, and pending timers
    report,           \* what the last handler step did (calls issued, outcome)
    sortEntries,      \* the sort on its own: the sibling entries to render
    sortRuns,         \* the sort on its own: the orders rendered so far
    watcher,          \* this.watcher
    watchers,         \* the roots of the chokidar subscriptions not closed yet
    contextMenu,      \* the target the context menu was opened on
    dialog,           \* the input dialog: what its confirmation goes to
    clicks,           \* the run of clicks the browser counts towards a dblclick
    files,            \* the editor's files: path |-> text on disk
    editor,           \* this.editor: the text of the Monaco editor, or NoEditor
    openTabs,         \* this.openTabs, a Map in insertion order
    tabElements,      \* the paths of the .editor-tab elements, in document order
    activeTab,        \* this.activeTab
    terminals,        \* terminalTypes: type |-> its pty and what happened to it
    tempFile,         \* code-area/main.js: the module variable tempFile
    tempFiles         \* the temp files of the syntax check: name |-> code

treeVars == <<disk, currentPath, fileTree, kids, expanded, selectedItems,
              selectedItem, lastSelectedItem, clipboard, draggedItem, inflight, report>>

sortVars == <<sortEntries, sortRuns>>

uiVars == <<watcher, watchers, contextMenu, dialog, clicks>>

editorVars == <<files, editor, openTabs, tabElements, activeTab>>

mainVars == <<terminals, tempFile, tempFiles>>

appVars == <<editorVars, mainVars>>

\* the explorer, but for the calls awaited and the report
explorerVars == <<impl, disk, currentPath, fileTree, kids, expanded, selectedItems,
                  selectedItem, lastSelectedItem, clipboard, draggedItem, sortVars, uiVars>>

vars == <<impl, treeVars, sortVars, uiVars, appVars>>

(* ----------------------------- the DOM --------------------------------- *)

NoItem == [kind |-> "none"]

NoClipboard == [type |-> "none"]

NoReport == [op |-> "none"]

NoWatcher == [kind |-> "none"]

NoMenu == [kind |-> "none"]

NoDialog == [kind |-> "none"]

NoClicks == [kind |-> "none"]

\* a path no item has: the value of .path on an object without that field
Undefined == << <<-1>> >>

\* a reference to the item object a tree item's listeners close over
ItemRef(it) == [kind |-> "item", path |-> it.path, name |-> it.name,
                isDirectory |-> it.isDirectory, live |-> TRUE]

\* a reference to a tree item element (CM keeps elements in some fields)
ElementRef(it) == [kind |-> "element", path |-> it.path, name |-> it.name,
                   isDirectory |-> it.isDirectory, live |-> TRUE]

\* a fresh object that is no tree item's own: { path } or a parsed copy
CopyRef(p, name, isDirectory) == [kind |-> "item", path |-> p, name |-> name,
                                  isDirectory |-> isDirectory, live |-> FALSE]

\* ref.path as JavaScript reads it
JsPath(ref) == IF ref.kind = "item" THEN ref.path ELSE Undefined

KidsOf(k, p) == IF p \in DOMAIN k THEN k[p] ELSE <<>>

\* querySelectorAll('.tree-item'): every tree item in the document, shown
\* or hidden, in document order
RECURSIVE DomOrder(_, _)
DomOrder(list, k) ==
    IF Len(list) = 0 THEN <<>>
    ELSE <<Head(list)>> \o DomOrder(KidsOf(k, Head(list).path), k) \o DomOrder(Tail(list), k)

\* the tree items the user sees: the children box of a folder shows only
\* while it carries the class 'expanded'
RECURSIVE VisibleOrder(_, _, _)
VisibleOrder(list, k, ex) ==
    IF Len(list) = 0 THEN <<>>
    ELSE <<Head(list)>>
         \o (IF Head(list).path \in ex
             THEN VisibleOrder(KidsOf(k, Head(list).path), k, ex) ELSE <<>>)
         \o VisibleOrder(Tail(list), k, ex)

Range(seq) == {seq[i] : i \in 1..Len(seq)}

DomItems == Range(DomOrder(fileTree, kids))

VisibleItems == Range(VisibleOrder(fileTree, kids, expanded))

DomPaths == {it.path : it \in DomItems}

\* index of the first element of seq satisfying Test, 0 if none (findIndex)
FindIndex(seq, Test(_)) ==
    IF \E i \in 1..Len(seq) : Test(seq[i])
    THEN CHOOSE i \in 1..Len(seq) : Test(seq[i]) /\ \A j \in 1..(i - 1) : ~Test(seq[j])
    ELSE 0

\* A JavaScript Set iterates in insertion order.  The model keeps the set
\* and lets every order be the insertion order: what Array.from(set)[0]
\* can be, and the orders Array.from(set) can have.
FirstOf(S) == IF S = {} THEN {Undefined} ELSE S

OrdersOf(S) ==
    {f \in [1..Cardinality(S) -> S] : \A i, j \in 1..Cardinality(S) : f[i] = f[j] => i = j}

\* a reference whose tree item was removed from the document is no longer
\* the object of any tree item that can be clicked
Unlive(ref, Gone(_)) ==
    IF ref.kind # "none" /\ ref.live /\ Gone(ref.path) THEN [ref EXCEPT !.live = FALSE] ELSE ref

\* an awaited expand whose tree item was removed fills a detached element
Detach(calls, Gone(_)) ==
    {IF c.kind = "expand" /\ Gone(c.node) THEN [c EXCEPT !.attached = FALSE] ELSE c : c \in calls}

Below(n, p) == IsPrefix(n, p) /\ p # n

\* appending the items to a children box that is not emptied first
AppendKids(k, n, items) ==
    [q \in DOMAIN k \cup (IF Len(items) > 0 THEN {n} ELSE {}) |->
         IF q = n THEN KidsOf(k, n) \o items ELSE k[q]]

\* children.innerHTML = '' followed by appending the items
SetKids(k, n, items) ==
    LET keep == {q \in DOMAIN k : ~IsPrefix(n, q)}
    IN  [q \in keep \cup (IF Len(items) > 0 THEN {n} ELSE {}) |->
             IF q = n THEN items ELSE k[q]]

EmptyKids == [q \in {} |-> <<>>]


(* ------------------------------ selection ------------------------------ *)
(* A selection state is [items, primary, last]: selectedItems,             *)
(* selectedItem and lastSelectedItem.                                      *)

Selection == [items |-> selectedItems, primary |-> selectedItem, last |-> lastSelectedItem]

\* this.selectedItem === item, for the item of a tree item in the document
SameObject(ref, it) == ref.kind = "item" /\ ref.live /\ ref.path = it.path

PathsBetween(order, i, j) == {order[n].path : n \in Min(i, j)..Max(i, j)}

\* FE deselectAllItems
DeselectAllItemsFE == [items |-> {}, primary |-> NoItem, last |-> NoItem]

\* CM deselectAllItems: lastSelectedItem is kept
DeselectAllItemsCM == [items |-> {}, primary |-> NoItem, last |-> lastSelectedItem]

\* CM clearSelection
ClearSelectionCM == [items |-> {}, primary |-> NoItem, last |-> NoItem]

\* FE selectRange
SelectRangeFE(startItem, endItem) ==
    LET allItems == DomOrder(fileTree, kids)
        startIndex == FindIndex(allItems, LAMBDA it : it.path = JsPath(startItem))
        endIndex == FindIndex(allItems, LAMBDA it : it.path = endItem.path)
    IN  IF startIndex = 0 \/ endIndex = 0 THEN Selection
        ELSE [items |-> PathsBetween(allItems, startIndex, endIndex),
              primary |-> ItemRef(endItem), last |-> ItemRef(endItem)]

\* CM selectRange: lastSelectedItem stays the anchor
SelectRangeCM(fromItem, toItem) ==
    LET allItems == DomOrder(fileTree, kids)
        fromIndex == FindIndex(allItems, LAMBDA it : it.path = JsPath(fromItem))
        toIndex == FindIndex(allItems, LAMBDA it : it.path = toItem.path)
    IN  IF fromIndex = 0 \/ toIndex = 0 THEN Selection
        ELSE [items |-> PathsBetween(allItems, fromIndex, toIndex),
              primary |-> ItemRef(toItem), last |-> lastSelectedItem]

ClickModes == {"plain", "ctrl", "shift"}

\* FE handleItemClick, the selection part
SelectOnClickFE(item, mode) ==
    IF mode = "ctrl"
    THEN IF item.path \in selectedItems
         THEN [items |-> selectedItems \ {item.path},
               primary |-> IF SameObject(selectedItem, item) THEN NoItem ELSE selectedItem,
               last |-> lastSelectedItem]
         ELSE [items |-> selectedItems \cup {item.path},
               primary |-> ItemRef(item), last |-> ItemRef(item)]
    ELSE IF mode = "shift" /\ lastSelectedItem # NoItem
    THEN SelectRangeFE(lastSelectedItem, item)
    ELSE [items |-> {item.path}, primary |-> ItemRef(item), last |-> ItemRef(item)]

\* CM handleItemClick, the selection part
SelectOnClickCM(item, mode, first) ==
    IF mode = "ctrl"
    THEN IF item.path \in selectedItems
         THEN LET remainingItems == selectedItems \ {item.path}
              IN  [items |-> remainingItems,
                   primary |->
                       IF ~SameObject(selectedItem, item) THEN selectedItem
                       ELSE IF remainingItems # {} /\ first \in DomPaths
                            THEN CopyRef(first, <<>>, FALSE)
                            ELSE NoItem,
                   last |-> lastSelectedItem]
         ELSE [items |-> selectedItems \cup {item.path},
               primary |-> ItemRef(item), last |-> ItemRef(item)]
    ELSE IF mode = "shift" /\ lastSelectedItem # NoItem
    THEN SelectRangeCM(lastSelectedItem, item)
    ELSE [items |-> {item.path}, primary |-> ItemRef(item), last |-> ItemRef(item)]

\* the values of Array.from(this.selectedItems)[0] a click can meet
FirstChoices(item, mode) ==
    IF impl = "CM" /\ mode = "ctrl" /\ item.path \in selectedItems
    THEN FirstOf(selectedItems \ {item.path}) ELSE {Undefined}

SelectOnClick(item, mode, first) ==
    IF impl = "CM" THEN SelectOnClickCM(item, mode, first) ELSE SelectOnClickFE(item, mode)

\* what a click is reported as: a range select records its anchor, the
\* tree items shown when it was made and the selection it met, a toggle
\* whether the path was selected and whether it was the primary item's
ClickReport(item, mode) ==
    IF mode = "ctrl"
    THEN [op |-> "toggle", path |-> item.path, selected |-> item.path \in selectedItems,
          primary |-> selectedItem # NoItem /\ selectedItem.path = item.path]
    ELSE IF mode = "shift" /\ lastSelectedItem # NoItem
    THEN [op |-> "range", to |-> item.path, anchor |-> lastSelectedItem.path,
          had |-> selectedItems,
          shown |-> [i \in 1..Len(VisibleOrder(fileTree, kids, expanded)) |->
                        VisibleOrder(fileTree, kids, expanded)[i].path]]
    ELSE NoReport

(* ------------------------------ the watcher ---------------------------- *)
(* A watch state is [watcher, watchers]: this.watcher, and the roots of    *)
(* the subscriptions that are live, in the order they were made.  The      *)
(* only assignment to this.watcher is the one that makes a subscription,   *)
(* so a live this.watcher is the last of them.                             *)

Watch == [watcher |-> watcher, watchers |-> watchers]

Watching(root) == [kind |-> "watcher", root |-> root]

\* a teardown that forgets to close the subscription
WatcherLeak(w) == w

\* this.watcher.close()
WatcherClose(w) ==
    [watcher |-> w.watcher, watchers |-> SubSeq(w.watchers, 1, Len(w.watchers) - 1)]

\* a live subscription watches the path: its root is the path or above it
Heard(p) == \E i \in 1..Len(watchers) : IsPrefix(watchers[i], p)

\* FE setupFileWatcher: this.watcher = chokidar.watch(this.currentPath)
setupFileWatcherFE(w, root) ==
    [watcher |-> Watching(root), watchers |-> Append(w.watchers, root)]

\* CM setupFileWatcher: an existing watcher is closed first
setupFileWatcherCM(w, root) ==
    setupFileWatcherFE(IF w.watcher # NoWatcher THEN WatcherClose(w) ELSE w, root)

\* FE openFolder, after its load: if (this.watcher) close; setupFileWatcher
openFolderWatcher(w, root) ==
    setupFileWatcherFE(IF w.watcher # NoWatcher THEN WatcherClose(w) ELSE w, root)

(* --------------------------- expand / collapse ------------------------- *)

\* the expands of a folder that await their listing
ExpandsOf(calls, p) == {c \in calls : c.kind = "expand" /\ c.node = p}

\* the number that tells an expand from the others of the same folder
ExpandRank(p) ==
    CHOOSE r \in 0..Cardinality(inflight) :
        /\ \A c \in ExpandsOf(inflight, p) : c.rank # r
        /\ \A q \in 0..(r - 1) : \E c \in ExpandsOf(inflight, p) : c.rank = q

\* an awaited read-directory of an expanding toggleFolder; attached: the
\* tree item is still in the document; collapsed: the folder was collapsed
\* by a later toggleFolder while this one waits
ExpandCall(p) == [kind |-> "expand", node |-> p, attached |-> TRUE,
                  rank |-> ExpandRank(p), collapsed |-> FALSE]

\* the expands of a folder see it collapsed while they wait
CollapsedMeanwhile(calls, p) ==
    {IF c \in ExpandsOf(calls, p) THEN [c EXCEPT !.collapsed = TRUE] ELSE c : c \in calls}

\* an awaited read-directory of loadFileTree; after: the delete-item calls
\* of the batch delete whose refresh this is, with their outcomes; origin:
\* the caller of loadFileTree ("init", "openFolder", "openFolderDialog",
\* "watcher", or "refresh" for the refreshFileTree of an operation)
LoadFor(p, log, origin) == [kind |-> "load", dir |-> p, after |-> log, origin |-> origin]

LoadAfter(p, log) == LoadFor(p, log, "refresh")

LoadCall(p) == LoadAfter(p, <<>>)

\* the handlers of the watcher's events (add, change, unlink, addDir,
\* unlinkDir) reload the tree: FE refreshFileTree(), CM loadFileTree()
WatcherLoad == LoadFor(currentPath, <<>>, "watcher")

Room == Cardinality(inflight) < MaxInflight

\* a click that follows another faster than the listings return ("fast")
\* finds the earlier expands still waiting
RoomFor(mode) == IF mode = "fast" THEN Cardinality(inflight) < MaxExpands ELSE Room

\* event.detail of the click events: the clicks on one tree item that
\* follow each other fast enough to count towards a dblclick, with what
\* the folder was before the first of them
CountClick(item, mode) ==
    IF mode # "fast" THEN NoClicks
    ELSE IF clicks # NoClicks /\ clicks.path = item.path /\ clicks.detail = 1
    THEN [clicks EXCEPT !.detail = 2]
    ELSE [kind |-> "clicks", path |-> item.path, detail |-> 1,
          wasExpanded |-> item.path \in expanded]

\* FE toggleFolder, collapse branch: the class is removed, the items stay
CollapseFE(n) ==
    [kids |-> kids, expanded |-> expanded \ {n}, removed |-> {}]

\* CM toggleFolder, collapse branch: the class is removed and
\* children.innerHTML = ''
CollapseCM(n) ==
    [kids |-> SetKids(kids, n, <<>>),
     expanded |-> {q \in expanded : ~IsPrefix(n, q)},
     removed |-> {q \in DomPaths : Below(n, q)}]

Collapse(n) == IF impl = "CM" THEN CollapseCM(n) ELSE CollapseFE(n)

\* handleItemClick: select, then toggleFolder when the item is a folder; CM
\* hides the context menu (FE leaves that to the click listener of the
\* document, which the event never reaches: e.stopPropagation())
handleItemClick(item, mode, first) ==
    LET sel == SelectOnClick(item, mode, first)
        collapsing == item.isDirectory /\ item.path \in expanded
        expanding == item.isDirectory /\ item.path \notin expanded
        c == IF collapsing THEN Collapse(item.path)
             ELSE [kids |-> kids, expanded |-> expanded, removed |-> {}]
        Gone(p) == p \in c.removed
    IN  /\ expanding => RoomFor(mode)
        /\ selectedItems' = sel.items
        /\ selectedItem' = Unlive(sel.primary, Gone)
        /\ lastSelectedItem' = Unlive(sel.last, Gone)
        /\ draggedItem' = Unlive(draggedItem, Gone)
        /\ kids' = c.kids
        /\ expanded' = c.expanded
        /\ inflight' = IF expanding THEN Detach(inflight, Gone) \cup {ExpandCall(item.path)}
                       ELSE IF collapsing
                       THEN CollapsedMeanwhile(Detach(inflight, Gone), item.path)
                       ELSE Detach(inflight, Gone)
        /\ report' = IF collapsing
                     THEN [op |-> "collapse", to |-> item.path]
                     ELSE ClickReport(item, mode)
        /\ contextMenu' = IF impl = "CM" THEN NoMenu ELSE contextMenu
        /\ clicks' = CountClick(item, mode)
        /\ UNCHANGED <<impl, disk, currentPath, fileTree, clipboard, sortVars,
                       watcher, watchers, dialog, appVars>>

\* CM: the click listener of a folder's toggle arrow, the same code as
\* toggleFolder; the event goes no further (e.stopPropagation()), so the
\* selection and the context menu stay
handleToggleClick(item, mode) ==
    LET collapsing == item.path \in expanded
        c == IF collapsing THEN CollapseCM(item.path)
             ELSE [kids |-> kids, expanded |-> expanded, removed |-> {}]
        Gone(p) == p \in c.removed
    IN  /\ impl = "CM"
        /\ item.isDirectory
        /\ ~collapsing => RoomFor(mode)
        /\ selectedItem' = Unlive(selectedItem, Gone)
        /\ lastSelectedItem' = Unlive(lastSelectedItem, Gone)
        /\ draggedItem' = Unlive(draggedItem, Gone)
        /\ kids' = c.kids
        /\ expanded' = c.expanded
        /\ inflight' = IF collapsing
                       THEN CollapsedMeanwhile(Detach(inflight, Gone), item.path)
                       ELSE Detach(inflight, Gone) \cup {ExpandCall(item.path)}
        /\ report' = IF collapsing THEN [op |-> "collapse", to |-> item.path] ELSE NoReport
        /\ clicks' = NoClicks
        /\ UNCHANGED <<impl, disk, currentPath, fileTree, selectedItems, clipboard,
                       sortVars, watcher, watchers, contextMenu, dialog, appVars>>

\* handleItemDoubleClick, which the browser calls after the second click
\* of a run: nothing for a folder ("single click already handles it"),
\* openFile for a file
handleItemDoubleClick(item) ==
    /\ clicks # NoClicks
    /\ clicks.path = item.path
    /\ clicks.detail = 2
    /\ clicks' = NoClicks
    /\ report' = [op |-> "dblclick", path |-> item.path, isDirectory |-> item.isDirectory,
                  wasExpanded |-> clicks.wasExpanded, opened |-> ~item.isDirectory]
    /\ UNCHANGED <<impl, disk, currentPath, fileTree, kids, expanded, selectedItems,
                   selectedItem, lastSelectedItem, clipboard, draggedItem, inflight,
                   sortVars, watcher, watchers, contextMenu, dialog, appVars>>

\* the report of an expand: the node, whether its tree item was still in
\* the document, and whether readdir had thrown in the main process
Expanded(c) ==
    [op |-> "expanded", node |-> c.node, attached |-> c.attached,
     failed |-> ~IsDir(disk, c.node), rank |-> c.rank, collapsed |-> c.collapsed,
     others |-> Cardinality(ExpandsOf(inflight, c.node)) - 1]

\* the read-directory of an expanding toggleFolder returns: the children
\* box is emptied, filled with the sorted items and marked 'expanded'
ExpandComplete(c) ==
    LET sortedItems == SortItems(ReadDirectory(disk, c.node))
        Gone(p) == c.attached /\ Below(c.node, p)
    IN  /\ c.kind = "expand"
        /\ kids' = IF c.attached THEN SetKids(kids, c.node, sortedItems) ELSE kids
        /\ expanded' = IF c.attached
                       THEN {q \in expanded : ~Below(c.node, q)} \cup {c.node}
                       ELSE expanded
        /\ selectedItem' = Unlive(selectedItem, Gone)
        /\ lastSelectedItem' = Unlive(lastSelectedItem, Gone)
        /\ draggedItem' = Unlive(draggedItem, Gone)
        /\ inflight' = Detach(inflight \ {c}, Gone)
        /\ report' = Expanded(c)
        /\ UNCHANGED <<impl, disk, currentPath, fileTree, selectedItems, clipboard, sortVars, uiVars,
                       appVars>>

(* ------------------------------- refresh ------------------------------- *)

\* refreshFileTree -> loadFileTree: read-directory of the current path
refreshFileTree ==
    /\ Room
    /\ inflight' = inflight \cup {LoadCall(currentPath)}
    /\ report' = NoReport
    /\ UNCHANGED <<impl, disk, currentPath, fileTree, kids, expanded, selectedItems,
                   selectedItem, lastSelectedItem, clipboard, draggedItem, sortVars, uiVars,
                   appVars>>

\* a rendering that appends the sorted items but leaves the children boxes
\* of the folders as they were
renderKeepingChildren(items) ==
    [fileTree |-> RenderOrder(impl, items), selectedItems |-> selectedItems,
     kids |-> kids, expanded |-> expanded]

\* renderFileTree: fileTree.innerHTML = '' removes every tree item with its
\* children box, then the sorted items are appended as fresh, collapsed
\* tree items; the selection is not touched
renderFileTree(items) ==
    [fileTree |-> RenderOrder(impl, items), selectedItems |-> selectedItems,
     kids |-> EmptyKids, expanded |-> {}]

\* the report of a rendering: its caller, the delete-item calls before it,
\* and the folders whose children box was expanded when it began
Rendered(c) ==
    [op |-> "rendered", origin |-> c.origin, after |-> c.after, was |-> expanded]

\* loadFileTree, after its read-directory returned, and what its caller
\* does when the await is over: CM init and FE openFolder set the watcher up
LoadComplete(c) ==
    LET r == renderFileTree(ReadDirectory(disk, c.dir))
        Gone(p) == TRUE
        w == IF c.origin = "init" /\ impl = "CM" THEN setupFileWatcherCM(Watch, currentPath)
             ELSE IF c.origin = "openFolder" THEN openFolderWatcher(Watch, currentPath)
             ELSE Watch
    IN  /\ c.kind = "load"
        /\ fileTree' = r.fileTree
        /\ selectedItems' = r.selectedItems
        /\ kids' = r.kids
        /\ expanded' = r.expanded
        /\ selectedItem' = Unlive(selectedItem, Gone)
        /\ lastSelectedItem' = Unlive(lastSelectedItem, Gone)
        /\ draggedItem' = Unlive(draggedItem, Gone)
        /\ inflight' = Detach(inflight \ {c}, Gone)
        /\ watcher' = w.watcher
        /\ watchers' = w.watchers
        /\ report' = Rendered(c)
        /\ UNCHANGED <<impl, disk, currentPath, clipboard, sortVars, contextMenu, dialog, clicks,
                       appVars>>

(* ---------------------------- environment ------------------------------ *)

\* another program removes an entry (and what lies beneath it)
ExternalRemove(p) ==
    /\ \E e \in disk : e.path = p
    /\ disk' = DeleteItem(disk, p).disk
    /\ report' = NoReport
    /\ UNCHANGED <<impl, currentPath, fileTree, kids, expanded, selectedItems, selectedItem,
                   lastSelectedItem, clipboard, draggedItem, inflight, sortVars, uiVars,
                   appVars>>


(* ----------------------- select all / deselect ------------------------ *)

\* FE selectAllItems: every tree item of the document; the primary is a
\* parsed copy of the first one
SelectAllItemsFE ==
    LET allTreeItems == DomOrder(fileTree, kids)
        firstItem == CopyRef(allTreeItems[1].path, allTreeItems[1].name,
                             allTreeItems[1].isDirectory)
    IN  IF Len(allTreeItems) > 0
        THEN [items |-> DomPaths, primary |-> firstItem, last |-> firstItem]
        ELSE DeselectAllItemsFE

\* CM selectAllItems: the primary is the last tree item element
SelectAllItemsCM ==
    LET allTreeItems == DomOrder(fileTree, kids)
        lastElement == ElementRef(allTreeItems[Len(allTreeItems)])
    IN  IF Len(allTreeItems) > 0
        THEN [items |-> DomPaths, primary |-> lastElement, last |-> lastElement]
        ELSE DeselectAllItemsCM

SetSelection(sel) ==
    /\ selectedItems' = sel.items
    /\ selectedItem' = sel.primary
    /\ lastSelectedItem' = sel.last

\* handleKeyboardShortcuts, Ctrl/Cmd+A
SelectAllKey ==
    /\ SetSelection(IF impl = "CM" THEN SelectAllItemsCM ELSE SelectAllItemsFE)
    /\ report' = NoReport
    /\ UNCHANGED <<impl, disk, currentPath, fileTree, kids, expanded, clipboard,
                   draggedItem, inflight, sortVars, uiVars, appVars>>

\* handleFileTreeClick on empty space (and Escape): everything is deselected
handleFileTreeClick ==
    /\ SetSelection(IF impl = "CM" THEN ClearSelectionCM ELSE DeselectAllItemsFE)
    /\ report' = NoReport
    /\ contextMenu' = NoMenu
    /\ clicks' = NoClicks
    /\ UNCHANGED <<impl, disk, currentPath, fileTree, kids, expanded, clipboard,
                   draggedItem, inflight, sortVars, watcher, watchers, dialog, appVars>>

(* ------------------------------ clipboard ------------------------------ *)
(* FE: { type, path } from copyItem/cutItem, { type, paths } from          *)
(* copyMultipleItems/cutMultipleItems; the field the object lacks reads as *)
(* undefined.  CM: { items: [{path, name, isDirectory}], operation }; an   *)
(* item's name is kept as path segments, see ClipboardItemCM.              *)

ClipboardOneFE(type, p) == [type |-> type, path |-> p, paths |-> <<>>]

ClipboardManyFE(type, ps) == [type |-> type, path |-> Undefined, paths |-> ps]

\* findTreeItemByPath / the lookup loop of getActiveTargetFolder
FindTreeItemByPath(p) ==
    IF p \in DomPaths THEN CHOOSE it \in DomItems : it.path = p ELSE NoItem

\* one entry of CM's clipboard; without a tree item the name falls back to
\* path.split('\\').pop(), which on '/'-separated paths is the whole path
ClipboardItemCM(p) ==
    LET element == FindTreeItemByPath(p)
    IN  [path |-> p,
         name |-> IF element # NoItem THEN <<element.name>> ELSE p,
         isDirectory |-> IF element # NoItem THEN element.isDirectory ELSE FALSE]

\* the report of a copy or cut: the operation, Array.from(selectedItems)
\* and the clipboard it met
Copied(operation, order) ==
    [op |-> "copied", operation |-> operation, paths |-> order, met |-> clipboard]

\* FE Ctrl/Cmd+C and Ctrl/Cmd+X (copyItem/cutItem for one selected path,
\* else copyMultipleItems/cutMultipleItems), and Copy/Cut of the context
\* menu opened on a selected item (always the Multiple variant)
CopyOrCutFE(type, order, viaMenu) ==
    /\ impl = "FE"
    /\ selectedItems # {}
    /\ clipboard' = IF Cardinality(selectedItems) = 1 /\ ~viaMenu
                    THEN ClipboardOneFE(type, order[1])
                    ELSE ClipboardManyFE(type, order)
    /\ report' = Copied(type, order)
    /\ UNCHANGED <<impl, disk, currentPath, fileTree, kids, expanded, selectedItems,
                   selectedItem, lastSelectedItem, draggedItem, inflight, sortVars, uiVars,
                   appVars>>

\* CM copySelectedItems / cutSelectedItems: nothing without a selection
CopyOrCutSelectedItemsCM(operation, order) ==
    /\ impl = "CM"
    /\ clipboard' = IF selectedItems = {} THEN clipboard
                    ELSE [items |-> [i \in 1..Len(order) |-> ClipboardItemCM(order[i])],
                          operation |-> operation]
    /\ report' = Copied(operation, order)
    /\ UNCHANGED <<impl, disk, currentPath, fileTree, kids, expanded, selectedItems,
                   selectedItem, lastSelectedItem, draggedItem, inflight, sortVars, uiVars,
                   appVars>>

(* -------------------------------- paste -------------------------------- *)

\* one call of a paste: the IPC channel, its arguments and its outcome
Outcome(call, src, dst, ok) == [call |-> call, src |-> src, dst |-> dst, ok |-> ok]

\* the channel a clipboard operation is pasted through
ChannelOf(operation) == IF operation = "cut" THEN "move-item" ELSE "copy-item"

\* the report of a paste: the folder it pasted into, the clipboard it
\* started from, the calls it made with their outcomes, whether it ended in
\* an exception, and the clipboard its last step met
Pasted(target, operation, sources, log, threw) ==
    [op |-> "pasted", target |-> target, operation |-> operation, sources |-> sources,
     log |-> log, threw |-> threw, met |-> clipboard]

SourcesFE(clip) == IF clip.path # Undefined THEN <<clip.path>> ELSE clip.paths

\* FE pasteItem(targetPath) up to its await, as [inflight, report]: nothing
\* without a clipboard; path.basename throws a TypeError when the clipboard
\* has no .path
pasteItem(targetPath) ==
    IF clipboard = NoClipboard
    THEN [inflight |-> inflight, report |-> NoReport]
    ELSE IF clipboard.path = Undefined
    THEN [inflight |-> inflight,
          report |-> Pasted(targetPath, clipboard.type, SourcesFE(clipboard), <<>>, TRUE)]
    ELSE [inflight |-> inflight \cup
              {[kind |-> "pasteFE", type |-> clipboard.type, src |-> clipboard.path,
                target |-> targetPath,
                dst |-> PathJoin(targetPath, PathBasename(clipboard.path))]},
          report |-> NoReport]

\* FE handleKeyboardShortcuts, Ctrl/Cmd+V: pasteItem(this.currentPath)
PasteKeyFE ==
    /\ impl = "FE"
    /\ clipboard # NoClipboard
    /\ Room
    /\ inflight' = pasteItem(currentPath).inflight
    /\ report' = pasteItem(currentPath).report
    /\ UNCHANGED <<impl, disk, currentPath, fileTree, kids, expanded, selectedItems,
                   selectedItem, lastSelectedItem, clipboard, draggedItem, sortVars, uiVars,
                   appVars>>

\* a paste that drops the clipboard whenever its call succeeded
ClipboardDroppedByPaste(type, ok) == IF ok THEN NoClipboard ELSE clipboard

\* FE pasteItem: this.clipboard = null in the branch of a successful move
ClipboardAfterPaste(type, ok) == IF type = "cut" /\ ok THEN NoClipboard ELSE clipboard

\* FE pasteItem after its copy-item / move-item returned
PasteCompleteFE(c) ==
    LET result == IF c.type = "copy" THEN CopyItem(disk, c.src, c.dst)
                  ELSE MoveItem(disk, c.src, c.dst)
    IN  /\ c.kind = "pasteFE"
        /\ disk' = result.disk
        /\ clipboard' = ClipboardAfterPaste(c.type, result.ok)
        /\ inflight' = (inflight \ {c}) \cup
                       (IF result.ok THEN {LoadCall(currentPath)} ELSE {})
        /\ report' = Pasted(c.target, c.type, <<c.src>>,
                             <<Outcome(ChannelOf(c.type), c.src, c.dst, result.ok)>>, FALSE)
        /\ UNCHANGED <<impl, currentPath, fileTree, kids, expanded, selectedItems,
                       selectedItem, lastSelectedItem, draggedItem, sortVars, uiVars,
                       appVars>>

\* CM getActiveTargetFolder: the single selected folder, else the root
GetActiveTargetFolder ==
    IF Cardinality(selectedItems) = 1
       /\ \E it \in DomItems : it.path \in selectedItems /\ it.isDirectory
    THEN CHOOSE p \in selectedItems : TRUE
    ELSE currentPath

TimerCall(folder) == [kind |-> "timer", folder |-> folder]

\* CM pasteFromClipboard up to its first await, as [inflight, report]
pasteFromClipboard ==
    IF clipboard = NoClipboard
    THEN [inflight |-> inflight, report |-> NoReport]
    ELSE [inflight |-> inflight \cup
              {[kind |-> "paste", items |-> clipboard.items, i |-> 1,
                target |-> GetActiveTargetFolder, operation |-> clipboard.operation,
                started |-> clipboard.operation, log |-> <<>>]},
          report |-> NoReport]

\* CM handleKeyboardShortcuts, Ctrl/Cmd+V: pasteFromClipboard()
PasteFromClipboardCM ==
    /\ impl = "CM"
    /\ clipboard # NoClipboard
    /\ Room
    /\ inflight' = pasteFromClipboard.inflight
    /\ report' = pasteFromClipboard.report
    /\ UNCHANGED <<impl, disk, currentPath, fileTree, kids, expanded, selectedItems,
                   selectedItem, lastSelectedItem, clipboard, draggedItem, sortVars, uiVars,
                   appVars>>

SourcesCM(items) == [i \in 1..Len(items) |-> items[i].path]

\* CM pasteFromClipboard from the return of one item's call to the next
\* await or to the end; this.clipboard.operation throws a TypeError when
\* the clipboard was cleared meanwhile
PasteStepCM(c) ==
    LET item == c.items[c.i]
        destinationPath == c.target \o item.name
        result == IF c.operation = "cut" THEN MoveItem(disk, item.path, destinationPath)
                  ELSE CopyItem(disk, item.path, destinationPath)
        log == Append(c.log, Outcome(ChannelOf(c.operation), item.path, destinationPath,
                                     result.ok))
        threw == clipboard = NoClipboard
        more == c.i < Len(c.items)
    IN  /\ c.kind = "paste"
        /\ disk' = result.disk
        /\ clipboard' = IF ~more /\ ~threw /\ clipboard.operation = "cut"
                        THEN NoClipboard ELSE clipboard
        /\ inflight' = (inflight \ {c}) \cup
               (IF threw THEN {}
                ELSE IF more
                THEN {[c EXCEPT !.i = c.i + 1, !.operation = clipboard.operation, !.log = log]}
                ELSE {LoadCall(currentPath)}
                     \cup (IF c.target # currentPath THEN {TimerCall(c.target)} ELSE {}))
        /\ report' = IF more /\ ~threw THEN NoReport
                     ELSE Pasted(c.target, c.started, SourcesCM(c.items), log, threw)
        /\ UNCHANGED <<impl, currentPath, fileTree, kids, expanded, selectedItems,
                       selectedItem, lastSelectedItem, draggedItem, sortVars, uiVars,
                       appVars>>

\* CM expandFolderToShowNewItem, run by setTimeout: the folder's tree item
\* is expanded through toggleFolder unless it is expanded already
TimerFires(c) ==
    LET found == \E it \in DomItems : it.path = c.folder /\ it.isDirectory
    IN  /\ c.kind = "timer"
        /\ inflight' = (inflight \ {c}) \cup
               (IF found /\ c.folder \notin expanded THEN {ExpandCall(c.folder)} ELSE {})
        /\ report' = NoReport
        /\ UNCHANGED <<impl, disk, currentPath, fileTree, kids, expanded, selectedItems,
                       selectedItem, lastSelectedItem, clipboard, draggedItem, sortVars, uiVars,
                       appVars>>

(* ----------------------------- context menu ---------------------------- *)
(* The menu as it was opened: its target (FE contextMenu.dataset, CM       *)
(* contextMenuTarget) and whether it offers Paste and Rename.              *)

\* FE showContextMenu / updateContextMenuVisibility: Paste is shown while
\* there is a clipboard, Rename while one path is selected
MenuFE(targetPath, targetName, items) ==
    [kind |-> "menu", targetPath |-> targetPath, targetName |-> targetName,
     paste |-> clipboard # NoClipboard, rename |-> Cardinality(items) = 1]

\* CM showContextMenu(x, y, hasSelection): Paste is always there (greyed
\* without a clipboard), Rename when the menu was opened on an item
MenuCM(targetPath, hasSelection) ==
    [kind |-> "menu", targetPath |-> targetPath, targetName |-> <<>>,
     paste |-> TRUE, rename |-> hasSelection]

\* FE showContextMenu(e, item) / CM handleFileItemContextMenu(e, item): an
\* item outside the selection becomes the selection; FE's target is the
\* item, CM's the item if it is a folder and else its parent folder
showContextMenu(item) ==
    LET ref == IF impl = "CM" THEN ElementRef(item) ELSE ItemRef(item)
        sel == IF item.path \in selectedItems THEN Selection
               ELSE [items |-> {item.path}, primary |-> ref, last |-> ref]
    IN  /\ SetSelection(sel)
        /\ contextMenu' =
               IF impl = "CM"
               THEN MenuCM(IF item.isDirectory THEN item.path ELSE PathDirname(item.path), TRUE)
               ELSE MenuFE(item.path, item.name, sel.items)
        /\ report' = NoReport
        /\ UNCHANGED <<impl, disk, currentPath, fileTree, kids, expanded, clipboard,
                       draggedItem, inflight, sortVars, watcher, watchers, dialog, clicks,
                       appVars>>

\* handleEmptySpaceContextMenu: the selection is dropped, the target is the
\* current path
handleEmptySpaceContextMenu ==
    /\ SetSelection(IF impl = "CM" THEN ClearSelectionCM ELSE DeselectAllItemsFE)
    /\ contextMenu' = IF impl = "CM" THEN MenuCM(currentPath, FALSE)
                      ELSE MenuFE(currentPath, <<>>, {})
    /\ report' = NoReport
    /\ UNCHANGED <<impl, disk, currentPath, fileTree, kids, expanded, clipboard,
                   draggedItem, inflight, sortVars, watcher, watchers, dialog, clicks,
                   appVars>>

\* handleContextMenuAction, Paste: FE pasteItem(targetPath) with the target
\* of the menu, CM pasteFromClipboard() when there is a clipboard
handleContextMenuPaste ==
    LET r == IF impl = "CM" THEN pasteFromClipboard ELSE pasteItem(contextMenu.targetPath)
    IN  /\ contextMenu # NoMenu
        /\ contextMenu.paste
        /\ Room
        /\ inflight' = r.inflight
        /\ report' = r.report
        /\ contextMenu' = NoMenu
        /\ UNCHANGED <<impl, disk, currentPath, fileTree, kids, expanded, selectedItems,
                       selectedItem, lastSelectedItem, clipboard, draggedItem, sortVars,
                       watcher, watchers, dialog, clicks, appVars>>

(* -------------------------------- delete ------------------------------ *)

\* the report of a finished batch delete: the paths it was started with,
\* the delete-item calls it made with their outcomes, and the two counts
\* (FE counts in successCount/errorCount; CM logs one line per item)
Deleted(paths, log, successCount, errorCount) ==
    [op |-> "deleted", paths |-> paths, log |-> log,
     successCount |-> successCount, errorCount |-> errorCount]

\* a batch delete that gives up at the first item that fails
DeleteStepFailFast(c, ok) == ok /\ c.i < Len(c.paths)

\* whether the loop of a batch delete goes on to the next path
DeleteStepContinues(c, ok) == c.i < Len(c.paths)

\* FE deleteMultipleItems (context menu Delete, or the Delete key with
\* several paths selected) / CM deleteSelectedItems, up to the first await;
\* the user may decline the confirm()
DeleteSelected(order, confirmed) ==
    /\ selectedItems # {}
    /\ Room
    /\ inflight' = IF confirmed
                   THEN inflight \cup {[kind |-> "delete", paths |-> order, i |-> 1,
                                        log |-> <<>>, successCount |-> 0, errorCount |-> 0]}
                   ELSE inflight
    /\ report' = NoReport
    /\ UNCHANGED <<impl, disk, currentPath, fileTree, kids, expanded, selectedItems,
                   selectedItem, lastSelectedItem, clipboard, draggedItem, sortVars, uiVars,
                   appVars>>

\* the batch delete from the return of one delete-item to the next await,
\* or to its end: one refresh, and in FE deselectAllItems; a live watcher
\* has seen the entry go (unlink / unlinkDir) and reloads the tree
DeleteStep(c) ==
    LET itemPath == c.paths[c.i]
        result == DeleteItem(disk, itemPath)
        log == Append(c.log, [path |-> itemPath, ok |-> result.ok])
        successCount == IF result.ok THEN c.successCount + 1 ELSE c.successCount
        errorCount == IF result.ok THEN c.errorCount ELSE c.errorCount + 1
        more == DeleteStepContinues(c, result.ok)
    IN  /\ c.kind = "delete"
        /\ disk' = result.disk
        /\ inflight' = (inflight \ {c}) \cup
               (IF more
                THEN {[c EXCEPT !.i = c.i + 1, !.log = log,
                                !.successCount = successCount, !.errorCount = errorCount]}
                ELSE {LoadAfter(currentPath, log)})
               \cup (IF result.ok /\ Heard(itemPath) THEN {WatcherLoad} ELSE {})
        /\ IF ~more /\ impl = "FE" THEN SetSelection(DeselectAllItemsFE)
           ELSE UNCHANGED <<selectedItems, selectedItem, lastSelectedItem>>
        /\ report' = IF more THEN NoReport
                     ELSE Deleted(c.paths, log, successCount, errorCount)
        /\ UNCHANGED <<impl, currentPath, fileTree, kids, expanded, clipboard,
                       draggedItem, sortVars, uiVars, appVars>>

(* ----------------------------- drag and drop --------------------------- *)

\* the tree items a bubbling event visits: the target, then the folder
\* items around it from the innermost to the outermost
RECURSIVE AncestorChain(_)
AncestorChain(p) ==
    IF Len(p) = 0 THEN <<>>
    ELSE (IF p \in DomPaths THEN <<CHOOSE it \in DomItems : it.path = p>> ELSE <<>>)
         \o AncestorChain(PathDirname(p))

\* FE handleDragStart on every item of the chain: the outermost one stays
\* CM handleDragStart stops the propagation: the element dragged stays
handleDragStart(item) ==
    LET chain == AncestorChain(item.path)
    IN  /\ draggedItem' = IF impl = "CM" THEN ElementRef(item)
                          ELSE ItemRef(chain[Len(chain)])
        /\ report' = NoReport
        /\ UNCHANGED <<impl, disk, currentPath, fileTree, kids, expanded, selectedItems,
                       selectedItem, lastSelectedItem, clipboard, inflight, sortVars, uiVars,
                       appVars>>

DropCall(kind, src, dst, folder) ==
    [kind |-> kind, src |-> src, dst |-> dst, folder |-> folder]

\* FE handleDrop on each item of the chain, up to the awaits: [calls, dragged]
RECURSIVE DropChainFE(_, _, _, _)
DropChainFE(chain, i, dragged, calls) ==
    IF i > Len(chain) THEN [calls |-> calls, dragged |-> dragged]
    ELSE IF dragged = NoItem \/ dragged.path = chain[i].path
    THEN DropChainFE(chain, i + 1, dragged, calls)
    ELSE IF chain[i].isDirectory
    THEN DropChainFE(chain, i + 1, dragged,
             Append(calls, DropCall("dropFE", dragged.path,
                        PathJoin(chain[i].path, PathBasename(dragged.path)), chain[i].path)))
    ELSE DropChainFE(chain, i + 1, NoItem, calls)

\* item !== this.draggedItem, on tree item elements
SameElement(ref, it) == ref.kind = "element" /\ ref.live /\ ref.path = it.path

\* CM handleDrop on each item of the chain until one stops the propagation,
\* then handleRootDrop, up to the awaits
RECURSIVE DropChainCM(_, _, _)
DropChainCM(chain, i, dragged) ==
    IF i > Len(chain)
    THEN \* handleRootDrop: closest tree item of the event target is chain[1]
         IF dragged # NoItem /\ (Len(chain) = 0 \/ ~chain[1].isDirectory)
            /\ dragged.path # PathJoin(currentPath, dragged.name)
         THEN <<DropCall("dropRootCM", dragged.path, PathJoin(currentPath, dragged.name),
                         currentPath)>>
         ELSE <<>>
    ELSE IF dragged # NoItem /\ chain[i].isDirectory /\ ~SameElement(dragged, chain[i])
    THEN <<DropCall("dropCM", dragged.path, PathJoin(chain[i].path, dragged.name),
                    chain[i].path)>>
    ELSE DropChainCM(chain, i + 1, dragged)

\* the browser fires drop only where a dragover handler called
\* preventDefault: FE does for an item other than the dragged one, CM always
DropAllowed(chain) ==
    IF impl = "CM" THEN TRUE
    ELSE draggedItem # NoItem
         /\ \E i \in 1..Len(chain) : chain[i].path # draggedItem.path

\* the report of a drop: what was dragged onto what, and the move-item
\* calls the handlers issued
Dropped(source, target, calls) ==
    [op |-> "dropped", source |-> source.path, isDirectory |-> source.isDirectory,
     target |-> target, calls |-> calls]

\* the drop event on a tree item (target, with its chain) or on the empty
\* space of the tree (empty chain, CM only); CM's dragend follows at once
DropOn(chain) ==
    LET fe == DropChainFE(chain, 1, draggedItem, <<>>)
        calls == IF impl = "CM" THEN DropChainCM(chain, 1, draggedItem) ELSE fe.calls
    IN  /\ draggedItem # NoItem
        /\ DropAllowed(chain)
        /\ Room
        /\ inflight' = inflight \cup Range(calls)
        /\ draggedItem' = IF impl = "CM" THEN NoItem ELSE fe.dragged
        /\ report' = Dropped(draggedItem,
                             IF Len(chain) = 0 THEN currentPath ELSE chain[1].path,
                             [i \in 1..Len(calls) |-> [src |-> calls[i].src, dst |-> calls[i].dst]])
        /\ UNCHANGED <<impl, disk, currentPath, fileTree, kids, expanded, selectedItems,
                       selectedItem, lastSelectedItem, clipboard, sortVars, uiVars,
                       appVars>>

\* a refresh whatever the call returned
RefreshAlways(ok) == {LoadCall(currentPath)}

\* if (result.success) this.refreshFileTree(): the else branch reloads
\* nothing
RefreshAfter(ok) == IF ok THEN {LoadCall(currentPath)} ELSE {}

\* what the else branch does with result.error: FE alert('Error ...: ' +
\* result.error), CM console.error('Failed to ...:', result.error)
Surfaced(ok) ==
    IF ok THEN "none" ELSE IF impl = "FE" THEN "alert" ELSE "console.error"

\* the report of a handler whose rename-item, create-file, create-folder
\* or move-item call returned
Settled(op, from, to, ok) ==
    [op |-> op, from |-> from, to |-> to, ok |-> ok, surfaced |-> Surfaced(ok)]

\* handleDrop / handleRootDrop after the move-item returned
DropComplete(c) ==
    LET result == MoveItem(disk, c.src, c.dst)
    IN  /\ c.kind \in {"dropFE", "dropCM", "dropRootCM"}
        /\ disk' = result.disk
        /\ inflight' = (inflight \ {c}) \cup
               RefreshAfter(result.ok) \cup
               (IF result.ok /\ c.kind = "dropCM" THEN {TimerCall(c.folder)} ELSE {})
        /\ draggedItem' = NoItem
        /\ report' = Settled("moved", c.src, c.dst, result.ok)
        /\ UNCHANGED <<impl, currentPath, fileTree, kids, expanded, selectedItems,
                       selectedItem, lastSelectedItem, clipboard, sortVars, uiVars,
                       appVars>>

(* --------------------- input dialog, rename, create -------------------- *)
(* The dialog as it is shown: what its confirmation goes to (FE the        *)
(* promise startRename / createNewFile / createNewFolder awaits, CM the    *)
(* callback), with the values that caller holds.                           *)

\* the string ' '
Blank == <<-2>>

\* String.prototype.trim
RECURSIVE Trim(_)
Trim(a) ==
    IF Len(a) > 0 /\ a[1] = Blank[1] THEN Trim(Tail(a))
    ELSE IF Len(a) > 0 /\ a[Len(a)] = Blank[1] THEN Trim(SubSeq(a, 1, Len(a) - 1))
    ELSE a

\* the name the user types when not the current one
TypedNames == {<<1>>}

\* what the input can hold when the dialog is confirmed: nothing, a blank,
\* the name it was opened with or a typed name, as they are or followed by
\* a blank
Typed(currentName) ==
    {<<>>, Blank} \cup UNION {{n, n \o Blank} : n \in (TypedNames \cup {currentName}) \ {<<>>}}

Dialog(for, p, currentName) ==
    [kind |-> "dialog", for |-> for, path |-> p, currentName |-> currentName]

\* FE startRename(itemPath, currentName) up to its await
startRename(itemPath, currentName) == Dialog("rename", itemPath, currentName)

\* CM renameItem(item) up to showInputDialog; nothing without dataset.name
renameItem(item) ==
    IF item.name = <<>> THEN dialog ELSE Dialog("rename", item.path, item.name)

\* CM: rename of the single selected path, if a tree item has it
RenameSelectedCM ==
    IF Cardinality(selectedItems) = 1
       /\ FindTreeItemByPath(CHOOSE q \in selectedItems : TRUE) # NoItem
    THEN renameItem(FindTreeItemByPath(CHOOSE q \in selectedItems : TRUE))
    ELSE dialog

\* handleContextMenuAction, Rename: FE startRename(targetPath, targetName)
\* when the menu has a target name and one path is selected
handleContextMenuRename ==
    /\ contextMenu # NoMenu
    /\ contextMenu.rename
    /\ dialog' = IF impl = "CM" THEN RenameSelectedCM
                 ELSE IF contextMenu.targetName # <<>> /\ Cardinality(selectedItems) = 1
                 THEN startRename(contextMenu.targetPath, contextMenu.targetName)
                 ELSE dialog
    /\ contextMenu' = NoMenu
    /\ report' = NoReport
    /\ UNCHANGED <<impl, disk, currentPath, fileTree, kids, expanded, selectedItems,
                   selectedItem, lastSelectedItem, clipboard, draggedItem, inflight,
                   sortVars, watcher, watchers, clicks, appVars>>

\* CM handleKeyboardShortcuts, F2 (FE's case 'f2' sits in the Ctrl/Cmd
\* switch and never matches the key name 'F2')
RenameKeyCM ==
    /\ impl = "CM"
    /\ Cardinality(selectedItems) = 1
    /\ dialog' = RenameSelectedCM
    /\ report' = NoReport
    /\ UNCHANGED <<impl, disk, currentPath, fileTree, kids, expanded, selectedItems,
                   selectedItem, lastSelectedItem, clipboard, draggedItem, inflight,
                   sortVars, watcher, watchers, contextMenu, clicks, appVars>>

\* KeyboardEvent.key of the F2 key
KeyF2 == "F2"

\* FE handleKeyboardShortcuts on F2: the switch of the Ctrl/Cmd combinations
\* has a case 'f2' (startRename of the single selected path), which is
\* compared with the key name; the switch of the keys without Ctrl/Cmd has
\* no case for it
RenameKeyFE(ctrl, first) ==
    /\ impl = "FE"
    /\ dialog' = IF ctrl /\ KeyF2 = "f2" /\ Cardinality(selectedItems) = 1
                 THEN startRename(first, PathBasename(first))
                 ELSE dialog
    /\ report' = [op |-> "key", key |-> KeyF2, ctrl |-> ctrl, selected |-> selectedItems,
                  met |-> dialog]
    /\ UNCHANGED <<impl, disk, currentPath, fileTree, kids, expanded, selectedItems,
                   selectedItem, lastSelectedItem, clipboard, draggedItem, inflight,
                   sortVars, watcher, watchers, contextMenu, clicks, appVars>>

\* FE getActiveFolderPath: the primary item if it is a folder, else the
\* folder of the first selected path, else the current path
GetActiveFolderPath(first) ==
    IF selectedItem # NoItem /\ selectedItem.kind = "item" /\ selectedItem.isDirectory
    THEN selectedItem.path
    ELSE IF selectedItems # {} THEN PathDirname(first)
    ELSE currentPath

\* the New File / New Folder buttons: createNewFileInActiveFolder and
\* createNewFolderInActiveFolder up to the dialog; the click hides the menu
createNewInActiveFolder(for, first) ==
    /\ dialog' = Dialog(for, IF impl = "CM" THEN GetActiveTargetFolder
                             ELSE GetActiveFolderPath(first), <<>>)
    /\ contextMenu' = NoMenu
    /\ report' = NoReport
    /\ UNCHANGED <<impl, disk, currentPath, fileTree, kids, expanded, selectedItems,
                   selectedItem, lastSelectedItem, clipboard, draggedItem, inflight,
                   sortVars, watcher, watchers, clicks, appVars>>

\* a rename goes no further without a name
RenameSkippedIfEmpty(newName, currentName) == newName = <<>>

\* if (!newName || newName === currentName) return
RenameSkipped(newName, currentName) == newName = <<>> \/ newName = currentName

\* the IPC calls the caller of the dialog issues for a trimmed input
CallsOf(d, name) ==
    IF d.for = "rename"
    THEN IF RenameSkipped(name, d.currentName) THEN {}
         ELSE {[kind |-> "rename", oldPath |-> d.path,
                newPath |-> PathJoin(PathDirname(d.path), name)]}
    ELSE IF name = <<>> THEN {}
         ELSE {[kind |-> "create", channel |-> d.for, target |-> d.path,
                path |-> PathJoin(d.path, name)]}

\* the report of a closed dialog: how it was closed, what the input held
\* and the IPC calls issued
Closed(d, action, value, calls) ==
    [op |-> "dialog", for |-> d.for, action |-> action, value |-> value,
     currentName |-> d.currentName, calls |-> calls]

\* confirmInputDialog (OK or Enter): FE resolves the promise with the
\* trimmed input, CM calls the callback, which trims; the caller goes on
\* to its IPC call
confirmInputDialog(value) ==
    LET calls == CallsOf(dialog, Trim(value))
    IN  /\ dialog # NoDialog
        /\ Room
        /\ dialog' = NoDialog
        /\ inflight' = inflight \cup calls
        /\ report' = Closed(dialog, "confirm", value, calls)
        /\ UNCHANGED <<impl, disk, currentPath, fileTree, kids, expanded, selectedItems,
                       selectedItem, lastSelectedItem, clipboard, draggedItem, sortVars,
                       watcher, watchers, contextMenu, clicks, appVars>>

\* cancelInputDialog (Cancel or Escape): FE resolves the promise with null,
\* CM drops the callback
cancelInputDialog ==
    /\ dialog # NoDialog
    /\ dialog' = NoDialog
    /\ report' = Closed(dialog, "cancel", <<>>, {})
    /\ UNCHANGED <<impl, disk, currentPath, fileTree, kids, expanded, selectedItems,
                   selectedItem, lastSelectedItem, clipboard, draggedItem, inflight,
                   sortVars, watcher, watchers, contextMenu, clicks, appVars>>

\* startRename / renameItem after rename-item returned: a refresh on success
RenameComplete(c) ==
    LET result == MoveItem(disk, c.oldPath, c.newPath)
    IN  /\ c.kind = "rename"
        /\ disk' = result.disk
        /\ inflight' = (inflight \ {c}) \cup RefreshAfter(result.ok)
        /\ report' = Settled("renamed", c.oldPath, c.newPath, result.ok)
        /\ UNCHANGED <<impl, currentPath, fileTree, kids, expanded, selectedItems,
                       selectedItem, lastSelectedItem, clipboard, draggedItem, sortVars,
                       uiVars, appVars>>

\* ipcMain.handle('create-file'): fs.promises.writeFile(filePath, '')
CreateFile(d, filePath) ==
    IF ~CanHold(d, filePath) \/ IsDir(d, filePath) THEN Failed(d)
    ELSE Done(d \cup {[path |-> filePath, isDirectory |-> FALSE]})

\* ipcMain.handle('create-folder'): fs.promises.mkdir(p, {recursive: true})
CreateFolder(d, folderPath) == MkdirRecursive(d, folderPath)

\* createNewFile / createNewFolder after the call returned: a refresh on
\* success, and in CM a timer that expands the target folder
CreateComplete(c) ==
    LET result == IF c.channel = "create-file" THEN CreateFile(disk, c.path)
                  ELSE CreateFolder(disk, c.path)
    IN  /\ c.kind = "create"
        /\ disk' = result.disk
        /\ inflight' = (inflight \ {c}) \cup
               RefreshAfter(result.ok) \cup
               (IF result.ok /\ impl = "CM" /\ c.target # currentPath
                THEN {TimerCall(c.target)} ELSE {})
        /\ report' = Settled("created", c.target, c.path, result.ok)
        /\ UNCHANGED <<impl, currentPath, fileTree, kids, expanded, selectedItems,
                       selectedItem, lastSelectedItem, clipboard, draggedItem, sortVars,
                       uiVars, appVars>>

(* --------------------------- changing the root ------------------------- *)

\* FE handleKeyboardShortcuts, Enter with one path selected and a folder as
\* this.selectedItem: openFolder(selectedItem) up to its await
openFolderWhile(mode) ==
    /\ impl = "FE"
    /\ Cardinality(selectedItems) = 1
    /\ selectedItem # NoItem
    /\ selectedItem.isDirectory
    /\ RoomFor(mode)
    /\ currentPath' = selectedItem.path
    /\ inflight' = inflight \cup {LoadFor(selectedItem.path, <<>>, "openFolder")}
    /\ report' = NoReport
    /\ UNCHANGED <<impl, disk, fileTree, kids, expanded, selectedItems, selectedItem,
                   lastSelectedItem, clipboard, draggedItem, sortVars, uiVars, appVars>>

openFolder == openFolderWhile("plain")

\* the folders the native folder dialog can hand back
FolderChoices == {p \in {<<>>} \cup {e.path : e \in disk} : IsDir(disk, p)}

\* CM openFolderDialog, from the return of open-folder-dialog with a folder
\* to the await of save-current-directory
openFolderDialogWhile(folderPath, mode) ==
    /\ impl = "CM"
    /\ RoomFor(mode)
    /\ currentPath' = folderPath
    /\ inflight' = inflight \cup {[kind |-> "save", folderPath |-> folderPath]}
    /\ report' = NoReport
    /\ UNCHANGED <<impl, disk, fileTree, kids, expanded, selectedItems, selectedItem,
                   lastSelectedItem, clipboard, draggedItem, sortVars, uiVars, appVars>>

openFolderDialog(folderPath) == openFolderDialogWhile(folderPath, "plain")

\* CM openFolderDialog after save-current-directory returned: loadFileTree()
SaveComplete(c) ==
    /\ c.kind = "save"
    /\ inflight' = (inflight \ {c}) \cup {LoadFor(currentPath, <<>>, "openFolderDialog")}
    /\ report' = NoReport
    /\ UNCHANGED <<impl, disk, currentPath, fileTree, kids, expanded, selectedItems,
                   selectedItem, lastSelectedItem, clipboard, draggedItem, sortVars, uiVars,
                   appVars>>

\* another program removes an entry; every live subscription whose root
\* the entry lies beneath reports it, and its handler reloads the tree
WatchedRemove(p) ==
    LET heard == Heard(p)
    IN  /\ \E e \in disk : e.path = p
        /\ disk' = DeleteItem(disk, p).disk
        /\ inflight' = inflight \cup (IF heard THEN {WatcherLoad} ELSE {})
        /\ report' = [op |-> "changed", path |-> p, heard |-> heard]
        /\ UNCHANGED <<impl, currentPath, fileTree, kids, expanded, selectedItems,
                       selectedItem, lastSelectedItem, clipboard, draggedItem, sortVars, uiVars,
                       appVars>>

(* ------------------------- the editor's tabs --------------------------- *)
(* class MonacoEditor (src/unnamed/part_000).  A file path is one of       *)
(* 1..NumFiles and NoTab is null; a text is one of 0..MaxContent.          *)
(* this.openTabs is the sequence of its entries in insertion order, each   *)
(* with its key: [path, content, originalContent, modified].               *)

FilePaths == 1..NumFiles

Contents == 0..MaxContent

NoTab == 0

NoEditor == -1

\* monaco.editor.create(container, {value: ''})
EmptyText == 0

TabPaths(tabs) == {tabs[i].path : i \in 1..Len(tabs)}

\* this.openTabs.get(filePath), where it has the key
TabOf(tabs, p) == tabs[CHOOSE i \in 1..Len(tabs) : tabs[i].path = p]

\* this.openTabs.set(filePath, {name, content, modified: false, originalContent})
SetTab(tabs, p, content) ==
    LET tabData == [path |-> p, content |-> content, originalContent |-> content,
                    modified |-> FALSE]
    IN  IF p \in TabPaths(tabs)
        THEN [i \in 1..Len(tabs) |-> IF tabs[i].path = p THEN tabData ELSE tabs[i]]
        ELSE Append(tabs, tabData)

\* this.openTabs.delete(filePath)
DeleteTab(tabs, p) == SelectSeq(tabs, LAMBDA t : t.path # p)

\* the handler of editor.onDidChangeModelContent: the entry of the active
\* tab takes the editor's text and is modified if it is not the original
onDidChangeModelContent(tabs, active, value) ==
    [i \in 1..Len(tabs) |->
        IF tabs[i].path = active
        THEN [tabs[i] EXCEPT !.content = value,
                             !.modified = (value # tabs[i].originalContent)]
        ELSE tabs[i]]

\* switchToTab: this.activeTab = filePath; with an entry and an editor,
\* editor.setValue(tabData.content), which the change handler hears
switchToTab(tabs, ed, p) ==
    IF p \in TabPaths(tabs) /\ ed # NoEditor
    THEN [activeTab |-> p, editor |-> TabOf(tabs, p).content,
          openTabs |-> onDidChangeModelContent(tabs, p, TabOf(tabs, p).content)]
    ELSE [activeTab |-> p, editor |-> ed, openTabs |-> tabs]

\* createTabElement: one more .editor-tab element, before the tab actions
createTabElement(elements, p) == Append(elements, p)

\* tab.remove() on the first element of the path, then break
RemoveFirstElement(elements, p) ==
    IF \E i \in 1..Len(elements) : elements[i] = p
    THEN LET k == CHOOSE i \in 1..Len(elements) :
                      elements[i] = p /\ \A j \in 1..(i - 1) : elements[j] # p
         IN  SubSeq(elements, 1, k - 1) \o SubSeq(elements, k + 1, Len(elements))
    ELSE elements

\* tabElements.forEach(tabElement => tabElement.remove())
RemoveElements(elements, p) == SelectSeq(elements, LAMBDA q : q # p)

SetEditor(sw) ==
    /\ activeTab' = sw.activeTab
    /\ editor' = sw.editor
    /\ openTabs' = sw.openTabs

\* openFileInTab up to its first await: initMonaco() if there is no editor,
\* readFile otherwise
openFileInTab(filePath) ==
    /\ Room
    /\ Len(tabElements) <= MaxTabElements
    /\ inflight' = inflight \cup
           {[kind |-> "open", path |-> filePath,
             phase |-> IF editor = NoEditor THEN "initMonaco" ELSE "readFile"]}
    /\ report' = NoReport
    /\ UNCHANGED <<explorerVars, editorVars, mainVars>>

\* openFileInTab after initMonaco(): createEditor has made an editor with
\* no text; readFile is awaited
InitMonacoComplete(c) ==
    /\ c.kind = "open" /\ c.phase = "initMonaco"
    /\ editor' = EmptyText
    /\ inflight' = (inflight \ {c}) \cup {[c EXCEPT !.phase = "readFile"]}
    /\ report' = NoReport
    /\ UNCHANGED <<explorerVars, files, openTabs, tabElements, activeTab, mainVars>>

\* openFileInTab after readFile returned: an error is shown, or the tab
\* that exists is switched to, or a tab is made and switched to
ReadFileComplete(c, success) ==
    LET had == c.path \in TabPaths(openTabs)
        tabs == IF had THEN openTabs ELSE SetTab(openTabs, c.path, files[c.path])
    IN  /\ c.kind = "open" /\ c.phase = "readFile"
        /\ inflight' = inflight \ {c}
        /\ IF success
           THEN /\ SetEditor(switchToTab(tabs, editor, c.path))
                /\ tabElements' = IF had THEN tabElements
                                  ELSE createTabElement(tabElements, c.path)
           ELSE UNCHANGED <<editor, openTabs, tabElements, activeTab>>
        /\ report' = [op |-> "opened", path |-> c.path, success |-> success, had |-> had]
        /\ UNCHANGED <<explorerVars, files, mainVars>>

\* a click on a tab element, off its close button
TabClick(p) ==
    /\ \E i \in 1..Len(tabElements) : tabElements[i] = p
    /\ SetEditor(switchToTab(openTabs, editor, p))
    /\ report' = [op |-> "switched", path |-> p, key |-> FALSE]
    /\ UNCHANGED <<explorerVars, files, tabElements, inflight, mainVars>>

\* Ctrl+Tab / Ctrl+Shift+Tab: the next or the previous key of openTabs
TabKey(shift) ==
    LET n == Len(openTabs)
        currentIndex == IF activeTab \in TabPaths(openTabs)
                        THEN CHOOSE i \in 1..n : openTabs[i].path = activeTab
                        ELSE 0
        nextIndex == IF shift THEN (IF currentIndex > 1 THEN currentIndex - 1 ELSE n)
                     ELSE (IF currentIndex < n THEN currentIndex + 1 ELSE 1)
    IN  /\ n > 1
        /\ SetEditor(switchToTab(openTabs, editor, openTabs[nextIndex].path))
        /\ report' = [op |-> "switched", path |-> openTabs[nextIndex].path, key |-> TRUE]
        /\ UNCHANGED <<explorerVars, files, tabElements, inflight, mainVars>>

\* the user types: the editor's text becomes value and the change handler
\* runs
Type(value) ==
    /\ editor # NoEditor
    /\ value # editor
    /\ editor' = value
    /\ openTabs' = onDidChangeModelContent(openTabs, activeTab, value)
    /\ report' = [op |-> "typed", value |-> value]
    /\ UNCHANGED <<explorerVars, files, tabElements, activeTab, inflight, mainVars>>

\* saveFile up to its await: the calls it issues
SaveFileCalls ==
    IF activeTab = NoTab \/ editor = NoEditor THEN {}
    ELSE {[kind |-> "save", path |-> activeTab, content |-> editor]}

\* closeTab(filePath), from the close button of a tab element or Ctrl+W;
\* shouldSave is the answer to the confirm() of a modified tab
closeTab(p, shouldSave) ==
    LET tabData == TabOf(openTabs, p)
        calls == IF tabData.modified /\ shouldSave THEN SaveFileCalls ELSE {}
        tabs == DeleteTab(openTabs, p)
        sw == IF activeTab # p
              THEN [activeTab |-> activeTab, editor |-> editor, openTabs |-> tabs]
              ELSE IF Len(tabs) > 0 THEN switchToTab(tabs, editor, tabs[1].path)
              ELSE [activeTab |-> NoTab, editor |-> NoEditor, openTabs |-> tabs]
    IN  /\ p \in TabPaths(openTabs)
        /\ tabData.modified \/ ~shouldSave
        /\ calls # {} => Room
        /\ inflight' = inflight \cup calls
        /\ tabElements' = RemoveElements(tabElements, p)
        /\ SetEditor(sw)
        /\ report' = [op |-> "closed", path |-> p, wasActive |-> activeTab = p,
                      modified |-> tabData.modified, shouldSave |-> shouldSave,
                      content |-> tabData.content, calls |-> calls,
                      remaining |-> TabPaths(tabs)]
        /\ UNCHANGED <<explorerVars, files, mainVars>>

\* Ctrl+S: saveFile up to its await
saveFile ==
    /\ SaveFileCalls # {}
    /\ Room
    /\ inflight' = inflight \cup SaveFileCalls
    /\ report' = NoReport
    /\ UNCHANGED <<explorerVars, editorVars, mainVars>>

\* the entry of path p takes the saved text
MarkSaved(tabs, p, content) ==
    [i \in 1..Len(tabs) |->
        IF tabs[i].path = p
        THEN [tabs[i] EXCEPT !.content = content, !.originalContent = content,
                             !.modified = FALSE]
        ELSE tabs[i]]

\* saveFile after save-file returned: the entry updated is that of
\* this.activeTab, read after the await
SaveFileComplete(c, success) ==
    /\ c.kind = "save"
    /\ inflight' = inflight \ {c}
    /\ files' = IF success THEN [files EXCEPT ![c.path] = c.content] ELSE files
    /\ openTabs' = IF success THEN MarkSaved(openTabs, activeTab, c.content) ELSE openTabs
    /\ report' = [op |-> "saved", path |-> c.path, content |-> c.content,
                  success |-> success, met |-> openTabs, typed |-> editor]
    /\ UNCHANGED <<explorerVars, editor, tabElements, activeTab, mainVars>>

\* Ctrl+Shift+S: saveAsFile up to its await
saveAsFile ==
    /\ editor # NoEditor
    /\ Room
    /\ Len(tabElements) <= MaxTabElements
    /\ inflight' = inflight \cup {[kind |-> "saveAs", content |-> editor]}
    /\ report' = NoReport
    /\ UNCHANGED <<explorerVars, editorVars, mainVars>>

\* saveAsFile after save-file returned with the path chosen in the dialog
SaveAsComplete(c, newFilePath) ==
    LET renamed == newFilePath # activeTab
        tabs == IF renamed
                THEN SetTab(IF activeTab # NoTab THEN DeleteTab(openTabs, activeTab)
                            ELSE openTabs, newFilePath, c.content)
                ELSE MarkSaved(openTabs, activeTab, c.content)
        elements == IF renamed
                    THEN createTabElement(
                             IF activeTab # NoTab
                             THEN RemoveFirstElement(tabElements, activeTab)
                             ELSE tabElements, newFilePath)
                    ELSE tabElements
    IN  /\ c.kind = "saveAs"
        /\ inflight' = inflight \ {c}
        /\ files' = [files EXCEPT ![newFilePath] = c.content]
        /\ openTabs' = tabs
        /\ tabElements' = elements
        /\ activeTab' = newFilePath
        /\ report' = [op |-> "savedAs", path |-> newFilePath, was |-> activeTab,
                      content |-> c.content]
        /\ UNCHANGED <<explorerVars, editor, mainVars>>

\* the save dialog is cancelled, or the write fails: nothing is updated
SaveAsFails(c) ==
    /\ c.kind = "saveAs"
    /\ inflight' = inflight \ {c}
    /\ report' = NoReport
    /\ UNCHANGED <<explorerVars, editorVars, mainVars>>

(* ----------------------------- terminals ------------------------------- *)
(* src/unnamed/part_001: terminalTypes and the three ipcMain.on handlers.  *)
(* A terminal is [pty, spawned, written, cols]: whether info.pty is set,   *)
(* the number of processes pty.spawn made for it, the number of writes     *)
(* its pty took and the width of its pty.                                  *)

\* Object.entries(terminalTypes), in insertion order
TerminalNames == <<"powershell", "bash", "nodejs">>

\* the types a message can name: the three, and one that is not a terminal
MessageTypes == {"powershell", "bash", "nodejs", "cmd"}

\* the widths a resize asks for; a pty is spawned with cols: 80
TerminalCols == {80, 120}

\* Largest number of processes spawned for one terminal type.
MaxSpawns == 2

NoPty == [pty |-> FALSE, spawned |-> 0, written |-> 0, cols |-> 80]

\* a spawnAllTerminals without `if (info.pty) return`
SpawnsAlways(info) == TRUE

\* if (info.pty) return; // Already spawned
NeedsSpawn(info) == ~info.pty

\* spawnAllTerminals: the forEach from the i-th type on; pty.spawn throws
\* for the type at failAt (0: for none), which ends the forEach
RECURSIVE SpawnFrom(_, _, _)
SpawnFrom(ts, i, failAt) ==
    IF i > Len(TerminalNames) THEN ts
    ELSE LET type == TerminalNames[i]
         IN  IF ~NeedsSpawn(ts[type]) THEN SpawnFrom(ts, i + 1, failAt)
             ELSE IF i = failAt THEN ts
             ELSE SpawnFrom([ts EXCEPT ![type] = [pty |-> TRUE, spawned |-> @.spawned + 1,
                                                  written |-> 0, cols |-> 80]],
                            i + 1, failAt)

\* ipcMain.on('init-terminals'): spawnAllTerminals()
InitTerminals(failAt) ==
    /\ \A type \in DOMAIN terminals : terminals[type].spawned < MaxSpawns
    /\ terminals' = SpawnFrom(terminals, 1, failAt)
    /\ report' = [op |-> "init-terminals", failAt |-> failAt]
    /\ UNCHANGED <<explorerVars, inflight, editorVars, tempFile, tempFiles>>

\* terminalTypes[type] && terminalTypes[type].pty
PtyReady(type) == type \in DOMAIN terminals /\ terminals[type].pty

\* what a handler did with a message: whether it called the pty, and
\* whether that call was on a pty that is not there (a TypeError)
Handled(op, type) ==
    [op |-> op, type |-> type, delivered |-> PtyReady(type),
     threw |-> PtyReady(type) /\ ~(type \in DOMAIN terminals /\ terminals[type].pty)]

\* ipcMain.on('terminal-input'): pty.write(data)
TerminalInput(type) ==
    /\ PtyReady(type) => terminals[type].written < MaxWrites
    /\ terminals' = IF PtyReady(type)
                    THEN [terminals EXCEPT ![type].written = @ + 1]
                    ELSE terminals
    /\ report' = Handled("terminal-input", type)
    /\ UNCHANGED <<explorerVars, inflight, editorVars, tempFile, tempFiles>>

\* ipcMain.on('resize-terminal'): pty.resize(cols, rows)
ResizeTerminal(type, cols) ==
    /\ terminals' = IF PtyReady(type)
                    THEN [terminals EXCEPT ![type].cols = cols]
                    ELSE terminals
    /\ report' = Handled("resize-terminal", type)
    /\ UNCHANGED <<explorerVars, inflight, editorVars, tempFile, tempFiles>>

(* ------------------------ the Perl syntax check ------------------------ *)
(* ipcMain.handle('check-perl-syntax') of the two main processes: impl is  *)
(* "code-area" (src/code-area/main.js) or "part_001" (src/unnamed/         *)
(* part_001).  A code is [text, warnings]: which text it is and whether    *)
(* it holds 'use warnings;'.  A temp file is named by a number: in         *)
(* code-area the one name made by the first call, in part_001 the          *)
(* Date.now() of the call.                                                 *)

Codes == [text : 1..MaxChecks, warnings : BOOLEAN]

NoCode == [text |-> 0, warnings |-> FALSE]

TempNames == 1..MaxChecks

\* if (!code.includes('use warnings;')) codeWithWarnings = 'use warnings;\n' + code
CodeWithWarnings(code) == [code EXCEPT !.warnings = TRUE]

CheckCall(code, name, phase) ==
    [kind |-> "check", code |-> code, file |-> name, phase |-> phase]

ChecksAwaited == {c \in inflight : c.kind = "check"}

\* code-area: createTempFile() if tempFile is not set, writeFileSync, exec
CheckPerlSyntaxCA(code) ==
    LET name == IF tempFile = 0 THEN 1 ELSE tempFile
    IN  /\ impl = "code-area"
        /\ Cardinality(ChecksAwaited) < MaxChecks
        /\ tempFile' = name
        /\ tempFiles' = [tempFiles EXCEPT ![name] = CodeWithWarnings(code)]
        /\ inflight' = inflight \cup {CheckCall(code, name, "exec")}
        /\ report' = NoReport
        /\ UNCHANGED <<explorerVars, editorVars, terminals>>

\* part_001: createTempFile() names the file after Date.now(), which is
\* the time of the call before or later; fs.promises.writeFile is awaited.
\* tempFile holds the last Date.now().
CheckPerlSyntaxP1(code, now) ==
    /\ impl = "part_001"
    /\ Cardinality(ChecksAwaited) < MaxChecks
    /\ now \in TempNames
    /\ now >= tempFile
    /\ tempFile' = now
    /\ inflight' = inflight \cup {CheckCall(code, now, "writeFile")}
    /\ report' = NoReport
    /\ UNCHANGED <<explorerVars, editorVars, terminals, tempFiles>>

\* part_001: the writeFile is done, perl is started
WriteFileComplete(c) ==
    /\ c.kind = "check" /\ c.phase = "writeFile"
    /\ tempFiles' = [tempFiles EXCEPT ![c.file] = CodeWithWarnings(c.code)]
    /\ inflight' = (inflight \ {c}) \cup {[c EXCEPT !.phase = "exec"]}
    /\ report' = NoReport
    /\ UNCHANGED <<explorerVars, editorVars, terminals, tempFile>>

\* perl -cw reads the temp file and ends; the callback of exec resolves the
\* call (part_001 unlinks the temp file first)
ExecComplete(c) ==
    /\ c.kind = "check" /\ c.phase = "exec"
    /\ inflight' = inflight \ {c}
    /\ tempFiles' = IF impl = "part_001" THEN [tempFiles EXCEPT ![c.file] = NoCode]
                    ELSE tempFiles
    /\ report' = [op |-> "checked", code |-> c.code, ran |-> tempFiles[c.file],
                  others |-> Cardinality(ChecksAwaited) - 1]
    /\ UNCHANGED <<explorerVars, editorVars, terminals, tempFile>>

(* -------------------------- initial states ----------------------------- *)

\* nothing is open in the editor, no terminal is spawned, no syntax check
\* was made; file p holds the text p
InitAppIdle ==
    /\ files = [p \in FilePaths |-> IF p <= MaxContent THEN p ELSE MaxContent]
    /\ editor = NoEditor
    /\ openTabs = <<>>
    /\ tabElements = <<>>
    /\ activeTab = NoTab
    /\ terminals = [type \in {TerminalNames[i] : i \in 1..Len(TerminalNames)} |-> NoPty]
    /\ tempFile = 0
    /\ tempFiles = [name \in TempNames |-> NoCode]

File(p) == [path |-> p, isDirectory |-> FALSE]

Folder(p) == [path |-> p, isDirectory |-> TRUE]

\* a folder A holding a folder b, next to a file a
NestedDisk == {Folder(<< <<1>> >>), Folder(<< <<1>>, <<4>> >>), File(<< <<2>> >>)}

\* a folder A holding a file b
FolderDisk == {Folder(<< <<1>> >>), File(<< <<1>>, <<4>> >>)}

\* a folder A holding a folder b
DeepDisk == {Folder(<< <<1>> >>), Folder(<< <<1>>, <<4>> >>)}

\* a folder A next to a file a
PairDisk == {Folder(<< <<1>> >>), File(<< <<2>> >>)}

\* a single file a
OneFileDisk == {File(<< <<2>> >>)}

\* two files side by side: a and B
FilesDisk == {File(<< <<2>> >>), File(<< <<3>> >>)}

\* the explorer after init(): the path is set, the first load is awaited;
\* FE has set its watcher up already, CM does when the load is over
InitTree(d) ==
    /\ impl \in {"FE", "CM"}
    /\ disk = d
    /\ currentPath = <<>>
    /\ fileTree = <<>>
    /\ kids = EmptyKids
    /\ expanded = {}
    /\ selectedItems = {}
    /\ selectedItem = NoItem
    /\ lastSelectedItem = NoItem
    /\ clipboard = NoClipboard
    /\ draggedItem = NoItem
    /\ inflight = {LoadFor(<<>>, <<>>, "init")}
    /\ report = NoReport
    /\ watcher = IF impl = "FE" THEN Watching(<<>>) ELSE NoWatcher
    /\ watchers = IF impl = "FE" THEN << <<>> >> ELSE <<>>
    /\ contextMenu = NoMenu
    /\ dialog = NoDialog
    /\ clicks = NoClicks

InitSortIdle ==
    /\ sortEntries = {}
    /\ sortRuns = <<>>

(* ------------------------ the sort, on its own ------------------------- *)

\* Largest number of times one set of siblings is rendered.
MaxRenders == 2

\* the subsets of S with at most k elements
RECURSIVE SubsetsUpTo(_, _)
SubsetsUpTo(S, k) ==
    IF k = 0 THEN {{}}
    ELSE LET smaller == SubsetsUpTo(S, k - 1)
         IN  smaller \cup {T \cup {x} : T \in {U \in smaller : Cardinality(U) = k - 1}, x \in S}

\* the sets of at most k sibling entries: distinct names out of names, each
\* a folder or a file
SiblingSets(names, k) ==
    UNION {{{[name |-> n, isDirectory |-> f[n]] : n \in N} : f \in [N -> BOOLEAN]} :
              N \in SubsetsUpTo(names, k)}

\* what read-directory returns for the siblings, in some order
ListingOf(order) ==
    [i \in 1..Len(order) |->
        [name |-> order[i].name, isDirectory |-> order[i].isDirectory,
         path |-> PathJoin(<<>>, order[i].name)]]

\* renderFileTree on a listing of the siblings
RenderSiblings(order) ==
    /\ Len(sortRuns) < MaxRenders
    /\ sortRuns' = Append(sortRuns, renderFileTree(ListingOf(order)).fileTree)
    /\ UNCHANGED <<impl, treeVars, sortEntries, uiVars, appVars>>

NextSort == \E order \in OrdersOf(sortEntries) : RenderSiblings(order)

InitSort ==
    /\ InitTree({})
    /\ InitAppIdle
    /\ sortEntries \in SiblingSets(SortNames, MaxSiblings)
    /\ sortRuns = <<>>

SpecSort == InitSort /\ [][NextSort]_vars

(* --------------------------- specifications ---------------------------- *)

Click(modes) ==
    \E it \in VisibleItems, mode \in modes :
        \E first \in FirstChoices(it, mode) : handleItemClick(it, mode, first)

Operations == {"copy", "cut"}

\* selecting, expanding, collapsing and refreshing while entries vanish
NextSelect ==
    \/ Click(ClickModes)
    \/ SelectAllKey
    \/ handleFileTreeClick
    \/ refreshFileTree
    \/ \E c \in inflight : ExpandComplete(c)
    \/ \E c \in inflight : LoadComplete(c)
    \/ \E e \in disk : ExternalRemove(e.path)

InitSelect == InitTree(NestedDisk) /\ InitSortIdle /\ InitAppIdle

SpecSelect == InitSelect /\ [][NextSelect]_vars

\* refreshing while folders are expanded and entries vanish
NextRefresh ==
    \/ Click({"plain"})
    \/ refreshFileTree
    \/ \E c \in inflight : ExpandComplete(c)
    \/ \E c \in inflight : LoadComplete(c)
    \/ \E e \in disk : ExternalRemove(e.path)

InitRefresh == InitTree(NestedDisk) /\ InitSortIdle /\ InitAppIdle

SpecRefresh == InitRefresh /\ [][NextRefresh]_vars

\* copy, cut and paste
NextClipboard ==
    \/ Click({"plain", "ctrl"})
    \/ \E t \in Operations, order \in OrdersOf(selectedItems), viaMenu \in BOOLEAN :
           CopyOrCutFE(t, order, viaMenu)
    \/ \E t \in Operations, order \in OrdersOf(selectedItems) :
           CopyOrCutSelectedItemsCM(t, order)
    \/ PasteKeyFE
    \/ PasteFromClipboardCM
    \/ \E c \in inflight : PasteCompleteFE(c)
    \/ \E c \in inflight : PasteStepCM(c)
    \/ \E c \in inflight : LoadComplete(c)
    \/ \E e \in disk : ExternalRemove(e.path)

InitClipboard == InitTree(FilesDisk) /\ InitSortIdle /\ InitAppIdle

SpecClipboard == InitClipboard /\ [][NextClipboard]_vars

\* batch delete
NextDelete ==
    \/ Click({"plain", "ctrl"})
    \/ \E order \in OrdersOf(selectedItems), confirmed \in BOOLEAN :
           DeleteSelected(order, confirmed)
    \/ \E c \in inflight : DeleteStep(c)
    \/ \E c \in inflight : ExpandComplete(c)
    \/ \E c \in inflight : LoadComplete(c)
    \/ \E e \in disk : ExternalRemove(e.path)

InitDelete == InitTree(FolderDisk) /\ InitSortIdle /\ InitAppIdle

SpecDelete == InitDelete /\ [][NextDelete]_vars

\* drag and drop
NextDrop ==
    \/ Click({"plain"})
    \/ \E it \in VisibleItems : handleDragStart(it)
    \/ \E it \in VisibleItems : DropOn(AncestorChain(it.path))
    \/ impl = "CM" /\ DropOn(<<>>)
    \/ \E c \in inflight : DropComplete(c)
    \/ \E c \in inflight : ExpandComplete(c)
    \/ \E c \in inflight : LoadComplete(c)
    \/ \E c \in inflight : TimerFires(c)

InitDrop == InitTree(NestedDisk) /\ InitSortIdle /\ InitAppIdle

SpecDrop == InitDrop /\ [][NextDrop]_vars

\* copy, cut and paste through the context menu and the keyboard
NextMenu ==
    \/ Click({"plain"})
    \/ \E t \in Operations, order \in OrdersOf(selectedItems), viaMenu \in BOOLEAN :
           CopyOrCutFE(t, order, viaMenu)
    \/ \E t \in Operations, order \in OrdersOf(selectedItems) :
           CopyOrCutSelectedItemsCM(t, order)
    \/ \E it \in VisibleItems : showContextMenu(it)
    \/ handleEmptySpaceContextMenu
    \/ handleContextMenuPaste
    \/ PasteKeyFE
    \/ PasteFromClipboardCM
    \/ \E c \in inflight : PasteCompleteFE(c)
    \/ \E c \in inflight : PasteStepCM(c)
    \/ \E c \in inflight : LoadComplete(c)

InitMenu == InitTree(FilesDisk) /\ InitSortIdle /\ InitAppIdle

SpecMenu == InitMenu /\ [][NextMenu]_vars

\* renaming and creating through the input dialog
NextRename ==
    \/ \E order \in OrdersOf(selectedItems) : CopyOrCutFE("copy", order, FALSE)
    \/ \E order \in OrdersOf(selectedItems) : CopyOrCutSelectedItemsCM("copy", order)
    \/ \E it \in VisibleItems : showContextMenu(it)
    \/ handleContextMenuRename
    \/ RenameKeyCM
    \/ \E ctrl \in BOOLEAN, first \in FirstOf(selectedItems) : RenameKeyFE(ctrl, first)
    \/ \E first \in FirstOf(selectedItems) : createNewInActiveFolder("create-file", first)
    \/ \E value \in Typed(IF dialog = NoDialog THEN <<>> ELSE dialog.currentName) :
           confirmInputDialog(value)
    \/ cancelInputDialog
    \/ \E c \in inflight : RenameComplete(c)
    \/ \E c \in inflight : CreateComplete(c)
    \/ \E c \in inflight : LoadComplete(c)

InitRename == InitTree(OneFileDisk) /\ InitSortIdle /\ InitAppIdle

SpecRename == InitRename /\ [][NextRename]_vars

\* opening another folder as the root, while entries vanish
NextRoot ==
    \/ Click({"plain"})
    \/ openFolder
    \/ \E folderPath \in FolderChoices : openFolderDialog(folderPath)
    \/ \E c \in inflight : SaveComplete(c)
    \/ \E c \in inflight : ExpandComplete(c)
    \/ \E c \in inflight : LoadComplete(c)
    \/ \E e \in disk : WatchedRemove(e.path)

InitRoot == InitTree(NestedDisk) /\ InitSortIdle /\ InitAppIdle

SpecRoot == InitRoot /\ [][NextRoot]_vars

\* opening another folder as the root while a listing is still awaited;
\* nothing else changes the disk
NextRace ==
    \/ Click({"plain"})
    \/ refreshFileTree
    \/ openFolderWhile("fast")
    \/ \E folderPath \in FolderChoices : openFolderDialogWhile(folderPath, "fast")
    \/ \E c \in inflight : SaveComplete(c)
    \/ \E c \in inflight : ExpandComplete(c)
    \/ \E c \in inflight : LoadComplete(c)

InitRace == InitTree(DeepDisk) /\ InitSortIdle /\ InitAppIdle

SpecRace == InitRace /\ [][NextRace]_vars

\* clicks, double clicks and clicks on the toggle arrow that follow each
\* other while the listings of earlier expands are awaited, and copying
\* what is selected
NextExpand ==
    \/ Click({"plain", "fast"})
    \/ \E t \in Operations, order \in OrdersOf(selectedItems) : CopyOrCutFE(t, order, FALSE)
    \/ \E t \in Operations, order \in OrdersOf(selectedItems) :
           CopyOrCutSelectedItemsCM(t, order)
    \/ \E it \in VisibleItems, mode \in {"plain", "fast"} : handleToggleClick(it, mode)
    \/ \E it \in VisibleItems : handleItemDoubleClick(it)
    \/ \E c \in inflight : ExpandComplete(c)
    \/ \E c \in inflight : LoadComplete(c)

InitExpand == InitTree(DeepDisk) /\ InitSortIdle /\ InitAppIdle

SpecExpand == InitExpand /\ [][NextExpand]_vars

\* every operation that is not a copy, a cut or a paste, next to those; the
\* user starts an operation when the one before is over: no call awaited,
\* no dialog or menu open, nothing being dragged
Idle ==
    /\ inflight = {}
    /\ dialog = NoDialog
    /\ contextMenu = NoMenu
    /\ draggedItem = NoItem

\* what is copied or cut is files (a folder pasted into itself is copied
\* level after level until the path is too long)
FilesSelected == \A q \in selectedItems : ~IsDir(disk, q)

NextFrame ==
    \/ Idle /\ Click({"plain"})
    \/ inflight = {} /\ dialog = NoDialog /\ handleFileTreeClick
    \/ Idle /\ FilesSelected /\ \E t \in Operations, order \in OrdersOf(selectedItems) :
                   CopyOrCutFE(t, order, FALSE)
    \/ Idle /\ FilesSelected /\ \E t \in Operations, order \in OrdersOf(selectedItems) :
                   CopyOrCutSelectedItemsCM(t, order)
    \/ Idle /\ PasteKeyFE
    \/ Idle /\ PasteFromClipboardCM
    \/ \E c \in inflight : PasteCompleteFE(c)
    \/ \E c \in inflight : PasteStepCM(c)
    \/ Idle /\ openFolder
    \/ Idle /\ \E folderPath \in FolderChoices : openFolderDialog(folderPath)
    \/ \E c \in inflight : SaveComplete(c)
    \/ Idle /\ \E it \in VisibleItems : showContextMenu(it)
    \/ handleContextMenuRename
    \/ \E value \in TypedNames : confirmInputDialog(value)
    \/ \E c \in inflight : RenameComplete(c)
    \/ Idle /\ \E order \in OrdersOf(selectedItems) : DeleteSelected(order, TRUE)
    \/ \E c \in inflight : DeleteStep(c)
    \/ Idle /\ \E it \in VisibleItems : handleDragStart(it)
    \/ inflight = {} /\ \E it \in VisibleItems : DropOn(AncestorChain(it.path))
    \/ \E c \in inflight : DropComplete(c)
    \/ \E c \in inflight : ExpandComplete(c)
    \/ \E c \in inflight : LoadComplete(c)
    \/ \E c \in inflight : TimerFires(c)

InitFrame == InitTree(PairDisk) /\ InitSortIdle /\ InitAppIdle

SpecFrame == InitFrame /\ [][NextFrame]_vars

\* renaming, creating and dragging a file next to a folder, one operation
\* after the other: the name typed is the folder's
NextFail ==
    \/ Idle /\ Click({"plain"})
    \/ Idle /\ FilesSelected /\ \E order \in OrdersOf(selectedItems) :
                   CopyOrCutFE("copy", order, FALSE)
    \/ Idle /\ FilesSelected /\ \E order \in OrdersOf(selectedItems) :
                   CopyOrCutSelectedItemsCM("copy", order)
    \/ Idle /\ \E it \in VisibleItems : showContextMenu(it)
    \/ handleContextMenuRename
    \/ Idle /\ \E first \in FirstOf(selectedItems) :
                   createNewInActiveFolder("create-file", first)
    \/ \E value \in TypedNames : confirmInputDialog(value)
    \/ \E c \in inflight : RenameComplete(c)
    \/ \E c \in inflight : CreateComplete(c)
    \/ Idle /\ \E it \in VisibleItems : handleDragStart(it)
    \/ inflight = {} /\ \E it \in VisibleItems : DropOn(AncestorChain(it.path))
    \/ \E c \in inflight : DropComplete(c)
    \/ \E c \in inflight : ExpandComplete(c)
    \/ \E c \in inflight : LoadComplete(c)
    \/ \E c \in inflight : TimerFires(c)

InitFail == InitTree(PairDisk) /\ InitSortIdle /\ InitAppIdle

SpecFail == InitFail /\ [][NextFail]_vars

\* an explorer that awaits nothing, on an empty disk
InitExplorerIdle(which) ==
    /\ impl = which
    /\ disk = {}
    /\ currentPath = <<>>
    /\ fileTree = <<>>
    /\ kids = EmptyKids
    /\ expanded = {}
    /\ selectedItems = {}
    /\ selectedItem = NoItem
    /\ lastSelectedItem = NoItem
    /\ clipboard = NoClipboard
    /\ draggedItem = NoItem
    /\ inflight = {}
    /\ report = NoReport
    /\ watcher = NoWatcher
    /\ watchers = <<>>
    /\ contextMenu = NoMenu
    /\ dialog = NoDialog
    /\ clicks = NoClicks

\* the editor's tabs: files opened from the ConceptualMap explorer, typing,
\* switching, closing and saving
NextTabs ==
    \/ \E filePath \in FilePaths : openFileInTab(filePath)
    \/ \E c \in inflight : InitMonacoComplete(c)
    \/ \E c \in inflight, success \in BOOLEAN : ReadFileComplete(c, success)
    \/ \E p \in FilePaths : TabClick(p)
    \/ \E shift \in BOOLEAN : TabKey(shift)
    \/ \E value \in Contents : Type(value)
    \/ \E p \in FilePaths, shouldSave \in BOOLEAN : closeTab(p, shouldSave)
    \/ saveFile
    \/ \E c \in inflight, success \in BOOLEAN : SaveFileComplete(c, success)
    \/ saveAsFile
    \/ \E c \in inflight, newFilePath \in FilePaths : SaveAsComplete(c, newFilePath)
    \/ \E c \in inflight : SaveAsFails(c)

InitTabs == InitExplorerIdle("CM") /\ InitSortIdle /\ InitAppIdle

SpecTabs == InitTabs /\ [][NextTabs]_vars

\* the terminals of the main process
NextTerminals ==
    \/ \E failAt \in 0..Len(TerminalNames) : InitTerminals(failAt)
    \/ \E type \in MessageTypes : TerminalInput(type)
    \/ \E type \in MessageTypes, cols \in TerminalCols : ResizeTerminal(type, cols)

InitTerminalsIdle == InitExplorerIdle("part_001") /\ InitSortIdle /\ InitAppIdle

SpecTerminals == InitTerminalsIdle /\ [][NextTerminals]_vars

\* syntax checks asked of either main process while others are running
NextChecks ==
    \/ \E code \in Codes : CheckPerlSyntaxCA(code)
    \/ \E code \in Codes, now \in TempNames : CheckPerlSyntaxP1(code, now)
    \/ \E c \in inflight : WriteFileComplete(c)
    \/ \E c \in inflight : ExecComplete(c)

InitChecks ==
    /\ \E which \in {"code-area", "part_001"} : InitExplorerIdle(which)
    /\ InitSortIdle
    /\ InitAppIdle

SpecChecks == InitChecks /\ [][NextChecks]_vars

(* ------------------------------ properties ----------------------------- *)

\* the sources a clipboard holds, in order
SourcesOf(clip) ==
    IF clip = NoClipboard THEN <<>>
    ELSE IF impl = "CM" THEN SourcesCM(clip.items) ELSE SourcesFE(clip)

\* the paths at positions i..j of a list of paths, in either direction
Between(shown, i, j) == {shown[n] : n \in Min(i, j)..Max(i, j)}

IndexOf(shown, p) == CHOOSE i \in 1..Len(shown) : shown[i] = p

\* C1: when a refresh has completed, every path of the selection set is the
\* path of a tree item rendered in the tree (so a selected path deleted on
\* disk before the refresh is no longer in the set).
C1_SelectionPrunedByRefresh ==
    report.op = "rendered" => selectedItems \subseteq DomPaths

\* C2: when a paste of a cut clipboard has completed, the clipboard is
\* empty, whether the items' moves succeeded or failed.
C2_CutPasteEmptiesClipboard ==
    (/\ report.op = "pasted"
     /\ report.operation = "cut"
     /\ ~report.threw
     /\ SourcesOf(report.met) = report.sources)
        => clipboard = NoClipboard

\* C3: when a paste of a copy clipboard has completed, the clipboard still
\* holds the same items with operation copy, and the paste (the first or a
\* later one) has issued a copy call for each item of the clipboard.
C3_CopyClipboardPersists ==
    (/\ report.op = "pasted"
     /\ report.operation = "copy"
     /\ SourcesOf(report.met) = report.sources)
        => /\ clipboard = report.met
           /\ Len(report.log) = Len(report.sources)
           /\ \A i \in 1..Len(report.log) : report.log[i].src = report.sources[i]

\* C4: dropping a folder onto itself or onto a folder beneath it is
\* rejected: no move-item call is issued.
C4_SelfOrDescendantDropRejected ==
    (/\ report.op = "dropped"
     /\ report.isDirectory
     /\ IsPrefix(report.source, report.target))
        => report.calls = <<>>

\* C5: a paste issues no filesystem call for a clipboard item whose
\* destination destinationDir/name is its own source path.
C5_SamePathPasteSkipped ==
    report.op = "pasted" =>
        \A i \in 1..Len(report.log) : report.log[i].src # report.log[i].dst

C7_PasteAttemptsEveryItem ==
    report.op = "pasted" =>
        /\ ~report.threw
        /\ Len(report.log) = Len(report.sources)
        /\ \A i \in 1..Len(report.sources) : report.log[i].src = report.sources[i]

\* C8: a range select whose anchor (lastSelectedItem) is rendered sets the
\* selection to exactly the rendered items between the anchor and the
\* clicked item, in either direction, with the clicked item as primary.
C8_RangeSelectsRenderedItemsBetween ==
    (/\ report.op = "range"
     /\ \E i \in 1..Len(report.shown) : report.shown[i] = report.anchor)
        => /\ selectedItems = Between(report.shown, IndexOf(report.shown, report.anchor),
                                      IndexOf(report.shown, report.to))
           /\ selectedItem # NoItem
           /\ selectedItem.path = report.to

\* C9: every rendering of a set of siblings shows each of them once, every
\* folder before every file, and within the folders and within the files
\* the names ascending without regard to case; two renderings of the same
\* siblings show the same order.
C9_RenderedOrder ==
    /\ \A r \in 1..Len(sortRuns) :
           LET run == sortRuns[r]
               shown == {e \in sortEntries : impl = "CM" => e.name # DotDot}
           IN  /\ Len(run) = Cardinality(shown)
               /\ {[name |-> run[i].name, isDirectory |-> run[i].isDirectory] :
                      i \in 1..Len(run)} = shown
               /\ \A i, j \in 1..Len(run) : i < j =>
                      /\ ~(~run[i].isDirectory /\ run[j].isDirectory)
                      /\ run[i].isDirectory = run[j].isDirectory =>
                             CodeUnitCompare(ToLowerCase(run[i].name),
                                             ToLowerCase(run[j].name)) <= 0
    /\ \A r, q \in 1..Len(sortRuns) : sortRuns[r] = sortRuns[q]

\* a file and a folder were rendered twice, from listings in different
\* orders: the folder's name sorts behind the file's and differs from it in
\* letter and in case (folder 'B', file 'a')
C9_Witness ==
    /\ Len(sortRuns) = 2
    /\ \E e, f \in sortEntries :
           /\ e.isDirectory /\ ~f.isDirectory
           /\ LocaleCompare(f.name, e.name) < 0
           /\ CodeUnitCompare(e.name, f.name) < 0
           /\ ToLowerCase(e.name) # e.name
           /\ sortRuns[1] = <<[name |-> e.name, isDirectory |-> TRUE, path |-> <<e.name>>],
                              [name |-> f.name, isDirectory |-> FALSE, path |-> <<f.name>>]>>

\* C10: a folder that was expanded and is collapsed again is not expanded
\* and has no children: collapsing discards the materialized children.
C10_CollapseDiscardsChildren ==
    report.op = "collapse" =>
        /\ report.to \notin expanded
        /\ KidsOf(kids, report.to) = <<>>

\* C11: at every point at most one watch subscription is live: whenever the
\* root is changed the old watcher is closed before the new one is made, so
\* no subscription but this.watcher's is ever left open.
C11_AtMostOneWatcher ==
    /\ Len(watchers) <= 1
    /\ Len(watchers) = 1 => watcher # NoWatcher /\ watcher.root = watchers[1]

\* the root was changed to a folder and the one live subscription is the
\* one made for it
C11_Witness ==
    /\ report.op = "rendered"
    /\ report.origin = "openFolder"
    /\ currentPath # <<>>
    /\ watchers = <<currentPath>>

\* C12: when a change of the root has completed, the live watch
\* subscription is bound to the new root (a change beneath it reloads the
\* tree) and no subscription watches the previous root any more.
C12_WatcherFollowsRoot ==
    (report.op = "rendered" /\ report.origin \in {"openFolder", "openFolderDialog"})
        => watchers = <<currentPath>>

\* C13: when a change of the root has completed, the selection set is empty
\* and neither the primary item nor the range anchor is set.
C13_RootChangeClearsSelection ==
    (report.op = "rendered" /\ report.origin \in {"openFolder", "openFolderDialog"})
        => /\ selectedItems = {}
           /\ selectedItem = NoItem
           /\ lastSelectedItem = NoItem

\* C14: when the listing of a folder fails during an expand, the folder's
\* tree item stays collapsed: it is never left marked expanded with no
\* children.
C14_FailedExpandStaysCollapsed ==
    (report.op = "expanded" /\ report.attached /\ report.failed)
        => report.node \notin expanded

\* C15: when a refresh has completed, no folder that was expanded before it
\* is shown expanded with the children it had: every tree item is rendered
\* afresh and collapsed, and an expand of it lists the disk again.
C15_NoStaleChildrenAfterRefresh ==
    report.op = "rendered" =>
        \A n \in report.was : n \notin expanded /\ KidsOf(kids, n) = <<>>

\* a refresh has rendered a folder again that was expanded before it
C15_Witness ==
    /\ report.op = "rendered"
    /\ \E it \in DomItems : it.isDirectory /\ it.path \in report.was

\* C16: a toggle click on an unselected path adds it to the selection and
\* makes it the primary item; on a selected path it removes it, and if it
\* was the primary item's path, a remaining member of the selection becomes
\* the primary item, or none is when the selection is empty.
C16_TogglePromotesPrimary ==
    report.op = "toggle" =>
        IF ~report.selected
        THEN /\ report.path \in selectedItems
             /\ selectedItem # NoItem
             /\ selectedItem.path = report.path
        ELSE /\ report.path \notin selectedItems
             /\ report.primary =>
                    IF selectedItems = {} THEN selectedItem = NoItem
                    ELSE selectedItem # NoItem /\ selectedItem.path \in selectedItems

\* C17: in the file-explorer, a paste of the clipboard that Copy or Cut
\* made of the selected items (one or several) issues one call for every
\* clipboard item, copy-item after Copy and move-item after Cut, with the
\* destination target/basename(item).
C17_PasteCallsPerItemFE ==
    (impl = "FE" /\ report.op = "pasted") =>
        /\ Len(report.log) = Len(report.sources)
        /\ \A i \in 1..Len(report.log) :
               /\ report.log[i].call = ChannelOf(report.operation)
               /\ report.log[i].src = report.sources[i]
               /\ report.log[i].dst =
                      PathJoin(report.target, PathBasename(report.sources[i]))

\* C18: a paste only ever targets a directory: every copy or move call it
\* issues has a destination D/name where D is a directory.
C18_PasteTargetsDirectory ==
    (report.op = "pasted" /\ report.log # <<>>) =>
        /\ IsDir(disk, report.target)
        /\ \A i \in 1..Len(report.log) : IsPrefix(report.target, report.log[i].dst)

\* C19: a rename issues no filesystem call when the new name is empty or
\* equal to the current name, and a cancelled rename or create dialog
\* issues no filesystem call; so no rename-item call is ever in flight for
\* an unchanged path.
C19_NoCallWithoutNewName ==
    /\ report.op = "dialog" =>
           /\ report.action = "cancel" => report.calls = {}
           /\ (/\ report.for = "rename"
               /\ \/ Trim(report.value) = <<>>
                  \/ Trim(report.value) = report.currentName) => report.calls = {}
    /\ \A c \in inflight : c.kind = "rename" => c.newPath # c.oldPath

\* a rename dialog was confirmed with the name it was opened with
C19_Witness ==
    /\ report.op = "dialog"
    /\ report.for = "rename"
    /\ report.action = "confirm"
    /\ report.value = report.currentName
    /\ report.calls = {}

\* C20: after a successful rename of an item, no entry of the selection
\* and no entry of the clipboard still refers to the item's old path.
C20_RenameLeavesNoOldPath ==
    (report.op = "renamed" /\ report.ok) =>
        /\ report.from \notin selectedItems
        /\ \A i \in 1..Len(SourcesOf(clipboard)) : SourcesOf(clipboard)[i] # report.from

\* C21: in the file-explorer, when a double click on a collapsed folder
\* (two click events, then dblclick) has been delivered, the folder is
\* expanded or a listing that will expand it is awaited, however the two
\* clicks interleave with the return of the directory listing.
C21_DoubleClickExpands ==
    (/\ impl = "FE"
     /\ report.op = "dblclick"
     /\ report.isDirectory
     /\ ~report.wasExpanded)
        => \/ report.path \in expanded
           \/ \E c \in ExpandsOf(inflight, report.path) : c.attached

\* C22: in the file-explorer, F2 pressed without a modifier key while one
\* item is selected (and no dialog is open) opens the rename dialog for
\* that item.
C22_F2OpensRenameFE ==
    (/\ impl = "FE"
     /\ report.op = "key"
     /\ report.key = KeyF2
     /\ ~report.ctrl
     /\ Cardinality(report.selected) = 1
     /\ report.met = NoDialog)
        => /\ dialog # NoDialog
           /\ dialog.for = "rename"
           /\ dialog.path \in report.selected

\* C23: a range select adds no entry of a collapsed folder to the
\* selection, even if that folder was expanded earlier: every path it adds
\* is the path of a tree item shown when the range select was made.
C23_RangeSkipsCollapsed ==
    report.op = "range" =>
        \A p \in selectedItems \ report.had : \E i \in 1..Len(report.shown) : report.shown[i] = p

\* C24: in the conceptualMap explorer, cut or copy with a non-empty
\* selection replaces the clipboard by one entry {path, name, isDirectory}
\* for every selected path, name being the base name of the path and
\* isDirectory the kind of the entry there; with an empty selection the
\* clipboard is left as it was.
C24_ClipboardSnapshot ==
    (impl = "CM" /\ report.op = "copied") =>
        IF report.paths = <<>> THEN clipboard = report.met
        ELSE /\ clipboard # NoClipboard
             /\ clipboard.operation = report.operation
             /\ Len(clipboard.items) = Len(report.paths)
             /\ \A i \in 1..Len(report.paths) :
                    /\ clipboard.items[i].path = report.paths[i]
                    /\ clipboard.items[i].name = <<PathBasename(report.paths[i])>>
                    /\ clipboard.items[i].isDirectory = IsDir(disk, report.paths[i])

\* C25: the clipboard is changed only by a copy, a cut and the completion
\* of the paste of a cut: selecting, deselecting, expanding, collapsing,
\* changing the root, renaming, deleting and moving by drag and drop leave
\* it as it is (a change of the root does not clear it).
C25_ClipboardFrame ==
    [][clipboard' # clipboard =>
           \/ report'.op = "copied"
           \/ /\ report'.op = "pasted"
              /\ clipboard' = NoClipboard
              /\ \/ report'.operation = "cut"
                 \/ impl = "CM" /\ clipboard.operation = "cut"]_vars

\* a change of the root has completed and the clipboard still holds what
\* was copied before it
C25_Witness ==
    /\ report.op = "rendered"
    /\ report.origin \in {"openFolder", "openFolderDialog"}
    /\ currentPath # <<>>
    /\ clipboard # NoClipboard

\* C26: the tree is not refreshed between the deletions of a batch delete:
\* no rendering completes while the batch has deleted some of its paths
\* and has others still to delete.
C26_NoRefreshWithinBatch ==
    (report.op = "rendered" /\ report.origin = "watcher")
        => ~\E c \in inflight : c.kind = "delete" /\ c.i > 1

\* C27: when two expands of the same collapsed folder await their listings
\* at once, the folder ends up with each child listed exactly once, in
\* whatever order the two listings return: no children box ever holds a
\* tree item twice, and after each return the box holds the listing.
C27_NoDoubleInsertion ==
    /\ \A n \in DOMAIN kids : \A i, j \in 1..Len(kids[n]) :
           kids[n][i].path = kids[n][j].path => i = j
    /\ (report.op = "expanded" /\ report.attached) =>
           {it.path : it \in Range(KidsOf(kids, report.node))}
               = {e.path : e \in ChildEntries(disk, report.node)}

\* two expands of a folder awaited their listings at once; the one started
\* second has returned after the other and the folder shows its child
C27_Witness ==
    /\ report.op = "expanded"
    /\ report.attached
    /\ report.rank = 1
    /\ report.others = 0
    /\ report.node \in expanded
    /\ Len(KidsOf(kids, report.node)) = 1

\* C28: when a folder was collapsed while an expand of it awaited its
\* listing, the listing does not expand the folder again when it returns.
C28_LateExpandKeepsCollapsed ==
    (report.op = "expanded" /\ report.attached /\ report.collapsed)
        => report.node \notin expanded

\* C29: when the rename-item, create-file, create-folder or move-item call
\* of a rename, a create or a drag-move returns a failure, the handler
\* surfaces it (FE alert, CM console.error) and leaves the tree, the
\* selection and the clipboard as they are; it awaits no load of the tree
\* and issues no call again: the calls awaited are those awaited before,
\* less the one that returned. The disk is as it was.
C29_FailedCallChangesNothing ==
    [][(report'.op \in {"renamed", "created", "moved"} /\ ~report'.ok) =>
          /\ report'.surfaced \in {"alert", "console.error"}
          /\ fileTree' = fileTree /\ kids' = kids /\ expanded' = expanded
          /\ selectedItems' = selectedItems /\ selectedItem' = selectedItem
          /\ lastSelectedItem' = lastSelectedItem
          /\ clipboard' = clipboard
          /\ disk' = disk
          /\ inflight' \subseteq inflight /\ inflight' # inflight]_vars

\* a drag-move has failed while paths are selected and on the clipboard
C29_Witness ==
    /\ report.op = "moved" /\ ~report.ok
    /\ selectedItems # {} /\ clipboard # NoClipboard

\* C30: in the ConceptualMap explorer, a drop on a tree item that is not
\* a folder (at any depth) or on the empty space of the tree issues one
\* move-item call, from the dragged item's path to the current root joined
\* with its name, and no call when the item is at that path already.
C30_DropOffFolderGoesToRoot ==
    (/\ impl = "CM"
     /\ report.op = "dropped"
     /\ ~\E it \in DomItems : it.path = report.target /\ it.isDirectory) =>
        LET destinationPath == PathJoin(currentPath, PathBasename(report.source))
        IN  report.calls = IF report.source = destinationPath THEN <<>>
                           ELSE <<[src |-> report.source, dst |-> destinationPath]>>

\* C31: whenever a primary item is set (this.selectedItem), its path is in
\* the selection set, whatever clicks, toggle clicks, range clicks,
\* select-all, deselection and refreshes came before.
C31_PrimaryIsSelected ==
    selectedItem # NoItem => selectedItem.path \in selectedItems

\* C32: where nothing but the explorer's own loads is awaited any more
\* (no read-directory of a tree load, no save-current-directory that a load
\* follows), the top-level items rendered are the listing of the current
\* root path, also when a load for an earlier root was still awaited when
\* the root changed.
C32_LastLoadIsCurrentRoot ==
    (\A c \in inflight : c.kind \notin {"load", "save"}) =>
        fileTree = renderFileTree(ReadDirectory(disk, currentPath)).fileTree

\* C33: one drop gesture issues at most one move-item call, also when its
\* target is a folder inside expanded folders and the drop event bubbles
\* through the handlers of several tree items.
C33_OneMovePerDrop ==
    report.op = "dropped" => Len(report.calls) <= 1

\* C34: in the editor, this.activeTab is null or the path of an entry of
\* openTabs, after any openFileInTab, switchToTab, closeTab and saveAsFile;
\* when the active tab was closed, a remaining tab is active, or none is
\* when no tab remains.
C34_ActiveTabIsOpen ==
    /\ activeTab = NoTab \/ activeTab \in TabPaths(openTabs)
    /\ (report.op = "closed" /\ report.wasActive) =>
           IF report.remaining = {} THEN activeTab = NoTab
           ELSE activeTab \in report.remaining

\* C35: when save-file returned, saveFile has recorded the saved text on
\* the tab of the path written only: the content and originalContent of
\* every other tab are what they were, also if the active tab changed
\* while the call was awaited.
C35_SaveTouchesItsTabOnly ==
    report.op = "saved" =>
        \A i \in 1..Len(openTabs) :
            LET tab == openTabs[i]
            IN  (tab.path # report.path /\ tab.path \in TabPaths(report.met)) =>
                    /\ tab.content = TabOf(report.met, tab.path).content
                    /\ tab.originalContent =
                           TabOf(report.met, tab.path).originalContent

\* C36: when a modified tab is closed and the user confirms saving, one
\* save-file call is issued, with that tab's path and that tab's content,
\* whether the tab is the active one or not.
C36_CloseSavesItsOwnTab ==
    (report.op = "closed" /\ report.modified /\ report.shouldSave) =>
        report.calls = {[kind |-> "save", path |-> report.path,
                         content |-> report.content]}

\* the text a tab shows: the editor's for the active tab, the stored
\* content for the others
TextOf(tab) ==
    IF tab.path = activeTab /\ editor # NoEditor THEN editor ELSE tab.content

\* C37: a tab is marked modified exactly when its text differs from its
\* originalContent, after any edits, tab switches and saves, edits made
\* while a save is awaited included.
C37_ModifiedIffDiffers ==
    \A i \in 1..Len(openTabs) :
        openTabs[i].modified <=> (TextOf(openTabs[i]) # openTabs[i].originalContent)

\* C38: every open path has one entry in openTabs and one tab element, and
\* every tab element is that of an open path.
C38_OneTabPerPath ==
    /\ \A i, j \in 1..Len(openTabs) : openTabs[i].path = openTabs[j].path => i = j
    /\ \A i, j \in 1..Len(tabElements) : tabElements[i] = tabElements[j] => i = j
    /\ {tabElements[i] : i \in 1..Len(tabElements)} = TabPaths(openTabs)

\* C39: for each terminal type at most one PTY process is ever spawned,
\* however many init-terminals messages arrive; a terminal-input or
\* resize-terminal message for a type that is not a terminal, or whose pty
\* is not spawned, changes nothing and calls no pty.
C39_OnePtyPerTerminal ==
    /\ [](\A type \in DOMAIN terminals : terminals[type].spawned <= 1)
    /\ [][\A type \in MessageTypes :
             (/\ report'.op \in {"terminal-input", "resize-terminal"}
              /\ report'.type = type
              /\ ~(type \in DOMAIN terminals /\ terminals[type].pty))
             => (terminals' = terminals /\ ~report'.delivered /\ ~report'.threw)]_vars

\* an init-terminals message arrived when a terminal had its pty (and had
\* taken input): each terminal has its one process
C39_Witness ==
    /\ report.op = "init-terminals"
    /\ \E type \in DOMAIN terminals : terminals[type].written > 0
    /\ \A type \in DOMAIN terminals :
           terminals[type].pty /\ terminals[type].spawned = 1

\* C40: the perl run of a check-perl-syntax call checks the code passed to
\* that call (with 'use warnings;' in it), also when other calls are awaited
\* at the same time.
C40_CheckRunsItsOwnCode ==
    report.op = "checked" => report.ran = CodeWithWarnings(report.code)

====
